---- MODULE Spec2Model ----
(***************************************************************************)
(* Model of the drellia dispatch pipeline (src/envio): message             *)
(* normalization, participant resolution, the per-session dispatcher with  *)
(* its retry helper, process_job and the chunk scheduler of drellia_envio. *)
(***************************************************************************)
EXTENDS Integers, Sequences, FiniteSets, TLC

(***************************************************************************)
(* Bounds of the model.                                                    *)
(***************************************************************************)
\* longest raw message list of a job
MaxMsgs == 4
\* longest raw message list given to the normalizer on its own
MaxRaw == 3
\* longest raw list of the specification of the normalizer's filters
MaxRich == 2
\* longest list of messages given in several encodings
MaxSem == 2
\* longest list of segment outcomes given to aggregate_session_result
MaxSegs == 3
\* threads calling get_drellia_api_key in one process
MaxCallers == 3
\* most rows of envio_mensajes a run of drellia_envio can fetch
NumJobs == 3
\* largest configured CHUNK_SIZE and MAX_WORKERS
MaxChunk == 2
MaxPool == 2
\* number of invocations of drellia_envio, one after another
MaxRuns == 2

(***************************************************************************)
(* Values shared by the whole model.                                       *)
(***************************************************************************)
\* Python's None, as a value comparable with strings
None == "None"

\* Python truthiness of an optional string
Truthy(x) == x \notin {None, ""}

(***************************************************************************)
(* config.py                                                               *)
(***************************************************************************)
\* max_retries passed at both call sites of _post_with_retry
MAX_RETRIES_ARG == 2
\* CHUNK_SIZE, MAX_WORKERS and TIMEOUT_ERROR_THRESHOLD are read from the
\* environment: the values a deployment may configure. A threshold is the
\* fraction <<numerator, denominator>>; 1/5 is the default 0.2.
CHUNK_SIZES == 1..MaxChunk
MAX_WORKERS_VALUES == 1..MaxPool
TIMEOUT_ERROR_THRESHOLDS == {<<1, 5>>, <<1, 2>>, <<3, 4>>}

(***************************************************************************)
(* messages_normalizer.py                                                  *)
(***************************************************************************)
\* str.strip().lower() on the strings the model uses
StripLower(s) ==
    CASE s = " Ana@X.com " -> "ana@x.com"
      [] s = " USER "      -> "user"
      [] s = "Bot"         -> "bot"
      [] s = "Operator "   -> "operator"
      [] s = "   "         -> ""
      [] OTHER             -> s

\* str.strip() on the strings the model uses
Strip(s) ==
    CASE s = " Ana@X.com " -> "Ana@X.com"
      [] s = " USER "      -> "USER"
      [] s = "Operator "   -> "Operator"
      [] s = "   "         -> ""
      [] s = " hola "      -> "hola"
      [] s = " key-env "   -> "key-env"
      [] s = " key-1 "     -> "key-1"
      [] OTHER             -> s

\* A message_time value: fmt says what the field holds, ms the instant it
\* denotes when it can be parsed.
NoTime == [fmt |-> "none", ms |-> 0]

\* parse_timestamp_to_ms: <<ms>>, or <<>> (None) for a missing or unparseable
\* value
parse_timestamp_to_ms(ts) ==
    CASE ts.fmt = "none"     -> <<>>
      [] ts.fmt = "calendar" -> <<ts.ms>>
      [] ts.fmt = "tuple"    -> <<ts.ms>>
      [] ts.fmt = "datetime" -> <<ts.ms>>
      [] OTHER               -> <<>>

\* resolve_actor: <<actor_type, actor_email>>
resolve_actor(us_origen, raw_msg) ==
    IF ~Truthy(us_origen) THEN <<"UNKNOWN", None>>
    ELSE LET origin == StripLower(us_origen) IN
         CASE origin \in {"user", "cliente", "customer"} -> <<"CUSTOMER", None>>
           [] origin \in {"bot", "flow", "ivr", "system"} -> <<"BOT", None>>
           [] origin \in {"operator", "agente", "agent", "supervisor"} ->
                <<"AGENT", IF Truthy(raw_msg.operador_email)
                           THEN raw_msg.operador_email
                           ELSE raw_msg.agent_email>>
           [] OTHER -> <<"UNKNOWN", None>>

Placeholders == {"__image__", "__audio__", "__file__", "<image>", "<audio>"}

\* InsertByTs placing m before the entries of the same timestamp
RECURSIVE InsertByTs_BeforeEqual(_, _)
InsertByTs_BeforeEqual(s, m) ==
    IF s = <<>> THEN <<m>>
    ELSE IF s[Len(s)].ts_ms < m.ts_ms THEN Append(s, m)
    ELSE Append(InsertByTs_BeforeEqual(SubSeq(s, 1, Len(s) - 1), m), s[Len(s)])

\* list.sort(key=ts_ms): stable insertion of m into the sorted list s
RECURSIVE InsertByTs(_, _)
InsertByTs(s, m) ==
    IF s = <<>> THEN <<m>>
    ELSE IF s[Len(s)].ts_ms <= m.ts_ms THEN Append(s, m)
    ELSE Append(InsertByTs(SubSeq(s, 1, Len(s) - 1), m), s[Len(s)])

RECURSIVE SortByTs(_)
SortByTs(s) ==
    IF s = <<>> THEN <<>>
    ELSE InsertByTs(SortByTs(SubSeq(s, 1, Len(s) - 1)), s[Len(s)])

\* NormalizeOne without the test on the actor type
NormalizeOne_KeepUnknown(msg, now) ==
    IF msg.mensaje = None THEN <<>>
    ELSE LET content_str == Strip(msg.mensaje)
             parsed == parse_timestamp_to_ms(msg.message_time)
             ts_ms == IF parsed = <<>> THEN now ELSE parsed[1]
             actor == resolve_actor(msg.us_origen, msg)
         IN  IF content_str = "" \/ content_str \in Placeholders THEN <<>>
             ELSE << [ts_ms |-> ts_ms, actor_type |-> actor[1],
                      actor_email |-> actor[2], content |-> content_str] >>

\* NormalizeOne skipping a record whose time cannot be parsed
NormalizeOne_DropUnparsed(msg, now) ==
    IF msg.mensaje = None THEN <<>>
    ELSE LET content_str == Strip(msg.mensaje)
             parsed == parse_timestamp_to_ms(msg.message_time)
             actor == resolve_actor(msg.us_origen, msg)
         IN  IF content_str = "" \/ content_str \in Placeholders THEN <<>>
             ELSE IF parsed = <<>> THEN <<>>
             ELSE IF actor[1] = "UNKNOWN" THEN <<>>
             ELSE << [ts_ms |-> parsed[1], actor_type |-> actor[1],
                      actor_email |-> actor[2], content |-> content_str] >>

\* the loop body of normalize_messages for one raw record: the list of zero
\* or one NormalizedMessage it appends
NormalizeOne(msg, now) ==
    IF msg.mensaje = None THEN <<>>
    ELSE LET content_str == Strip(msg.mensaje)
             parsed == parse_timestamp_to_ms(msg.message_time)
             ts_ms == IF parsed = <<>> THEN now ELSE parsed[1]
             actor == resolve_actor(msg.us_origen, msg)
         IN  IF content_str = "" \/ content_str \in Placeholders THEN <<>>
             ELSE IF actor[1] = "UNKNOWN" THEN <<>>
             ELSE << [ts_ms |-> ts_ms, actor_type |-> actor[1],
                      actor_email |-> actor[2], content |-> content_str] >>

RECURSIVE NormalizeAll(_, _)
NormalizeAll(raw_items, now) ==
    IF raw_items = <<>> THEN <<>>
    ELSE NormalizeOne(Head(raw_items), now) \o NormalizeAll(Tail(raw_items), now)

\* normalize_messages on a native list of records
normalize_messages(mensajes_raw, now) == SortByTs(NormalizeAll(mensajes_raw, now))

(***************************************************************************)
(* drellia_client.py: participants and message batch                       *)
(***************************************************************************)
\* (actor_email or "").strip().lower() or None
EmailNorm(actor_email) ==
    LET s == StripLower(IF Truthy(actor_email) THEN actor_email ELSE "")
    IN  IF s = "" THEN None ELSE s

\* db.get_agent_by_email: the drellia_uuid of the row of table agentes whose
\* lower-cased email matches, None without such a row
get_agent_by_email(agentes, email) ==
    IF email \in DOMAIN agentes THEN agentes[email] ELSE None

\* resolve_employee_id_for_actor without the fallback of a BOT
resolve_employee_id_for_actor_BotNoFallback(agentes, bot_id, job, actor_type, actor_email) ==
    CASE actor_type = "BOT" ->
           IF Truthy(bot_id) THEN bot_id ELSE None
      [] actor_type = "AGENT" ->
           LET email_norm == EmailNorm(actor_email)
               drellia_uuid == IF email_norm # None
                               THEN get_agent_by_email(agentes, email_norm)
                               ELSE None
           IN  IF Truthy(drellia_uuid) THEN drellia_uuid
               ELSE IF Truthy(job.agent_drellia_id) THEN job.agent_drellia_id
               ELSE None
      [] OTHER -> None

\* resolve_employee_id_for_actor without the fallback of an AGENT
resolve_employee_id_for_actor_NoFallback(agentes, bot_id, job, actor_type, actor_email) ==
    CASE actor_type = "BOT" ->
           IF Truthy(bot_id) THEN bot_id
           ELSE IF Truthy(job.agent_drellia_id) THEN job.agent_drellia_id
           ELSE None
      [] actor_type = "AGENT" ->
           LET email_norm == EmailNorm(actor_email)
               drellia_uuid == IF email_norm # None
                               THEN get_agent_by_email(agentes, email_norm)
                               ELSE None
           IN  IF Truthy(drellia_uuid) THEN drellia_uuid ELSE None
      [] OTHER -> None

\* resolve_employee_id_for_actor
resolve_employee_id_for_actor(agentes, bot_id, job, actor_type, actor_email) ==
    CASE actor_type = "BOT" ->
           IF Truthy(bot_id) THEN bot_id
           ELSE IF Truthy(job.agent_drellia_id) THEN job.agent_drellia_id
           ELSE None
      [] actor_type = "AGENT" ->
           LET email_norm == EmailNorm(actor_email)
               drellia_uuid == IF email_norm # None
                               THEN get_agent_by_email(agentes, email_norm)
                               ELSE None
           IN  IF Truthy(drellia_uuid) THEN drellia_uuid
               ELSE IF Truthy(job.agent_drellia_id) THEN job.agent_drellia_id
               ELSE None
      [] OTHER -> None

\* ParticipantKey on the email as the message carries it
ParticipantKey_RawEmail(m) ==
    IF m.actor_type = "BOT" THEN "BOT"
    ELSE IF Truthy(m.actor_email) THEN "AGENT|" \o m.actor_email ELSE "AGENT|"

\* the participant key of a BOT or AGENT message
ParticipantKey(m) ==
    IF m.actor_type = "BOT" THEN "BOT"
    ELSE LET email == EmailNorm(m.actor_email)
         IN  IF email # None THEN "AGENT|" \o email ELSE "AGENT|"

\* position of key in the participants dict (0 when absent); the dict is
\* kept as the sequence of its entries in insertion order
KeyIndex(participants, key) ==
    IF \E i \in 1..Len(participants) : participants[i].key = key
    THEN CHOOSE i \in 1..Len(participants) : participants[i].key = key
    ELSE 0

\* CountParticipants without the test that skips CUSTOMER messages
RECURSIVE CountParticipants_NoFilter(_, _)
CountParticipants_NoFilter(participants, msgs) ==
    IF msgs = <<>> THEN participants
    ELSE LET m == Head(msgs)
             key == ParticipantKey(m)
             i == KeyIndex(participants, key)
             email == IF m.actor_type = "BOT" THEN None
                      ELSE EmailNorm(m.actor_email)
             withKey == IF i = 0
                        THEN Append(participants,
                                    [key |-> key, actor_type |-> m.actor_type,
                                     email |-> email, count |-> 0,
                                     employee_id |-> None])
                        ELSE participants
             j == KeyIndex(withKey, key)
         IN  CountParticipants_NoFilter(
                 [withKey EXCEPT ![j].count = withKey[j].count + 1],
                 Tail(msgs))

\* _build_participants_from_messages, step 1: count messages per actor
RECURSIVE CountParticipants(_, _)
CountParticipants(participants, msgs) ==
    IF msgs = <<>> THEN participants
    ELSE LET m == Head(msgs) IN
         IF m.actor_type \notin {"BOT", "AGENT"}
         THEN CountParticipants(participants, Tail(msgs))
         ELSE LET key == ParticipantKey(m)
                  i == KeyIndex(participants, key)
                  email == IF m.actor_type = "BOT" THEN None
                           ELSE EmailNorm(m.actor_email)
                  withKey == IF i = 0
                             THEN Append(participants,
                                         [key |-> key, actor_type |-> m.actor_type,
                                          email |-> email, count |-> 0,
                                          employee_id |-> None])
                             ELSE participants
                  j == KeyIndex(withKey, key)
              IN  CountParticipants(
                      [withKey EXCEPT ![j].count = withKey[j].count + 1],
                      Tail(msgs))

\* _build_participants_from_messages
build_participants_from_messages(agentes, bot_id, job, normalized_messages) ==
    LET counted == CountParticipants(<<>>, normalized_messages)
    IN  [i \in 1..Len(counted) |->
            [counted[i] EXCEPT !.employee_id =
                resolve_employee_id_for_actor(agentes, bot_id, job,
                    counted[i].actor_type, counted[i].email)]]

\* whether building the participants queries table agentes at all
NeedsAgentLookup(normalized_messages) ==
    \E i \in 1..Len(normalized_messages) :
        /\ normalized_messages[i].actor_type = "AGENT"
        /\ EmailNorm(normalized_messages[i].actor_email) # None

\* valid_participants without the filter on employee_id
valid_participants_All(participants) == participants

\* valid_participants: the entries with an employee_id, in dict order
valid_participants(participants) ==
    SelectSeq(participants, LAMBDA p : Truthy(p.employee_id))

\* MainIndex taking the first entry whatever its count
MainIndex_First(valid) == 1

\* MainIndex taking the last of the entries that hold the highest count
MainIndex_Last(valid) ==
    CHOOSE i \in 1..Len(valid) :
        /\ \A j \in 1..Len(valid) : valid[j].count <= valid[i].count
        /\ \A j \in (i + 1)..Len(valid) : valid[j].count < valid[i].count

\* max(valid_participants.keys(), key=count): the first entry in dict order
\* that holds the highest count
MainIndex(valid) ==
    CHOOSE i \in 1..Len(valid) :
        /\ \A j \in 1..Len(valid) : valid[j].count <= valid[i].count
        /\ \A j \in 1..(i - 1) : valid[j].count < valid[i].count

\* KeyToEmpId with the BOT key left out of the map
KeyToEmpId_NoBot(participants, key) ==
    LET i == KeyIndex(participants, key)
    IN  IF i = 0 \/ key = "BOT" THEN None ELSE participants[i].employee_id

\* key_to_emp_id.get(key)
KeyToEmpId(participants, key) ==
    LET i == KeyIndex(participants, key)
    IN  IF i = 0 THEN None ELSE participants[i].employee_id

\* BodyEntry appending the messages of the customer only
BodyEntry_CustomerOnly(m, customer_id, participants) ==
    IF m.content = "" THEN <<>>
    ELSE IF m.actor_type = "CUSTOMER"
    THEN << [content |-> m.content, senderRole |-> "customer",
             senderId |-> customer_id, timestamp |-> m.ts_ms,
             originalDateTime |-> m.ts_ms] >>
    ELSE <<>>

\* BodyEntry keeping the messages of a participant without employee id
BodyEntry_KeepUnresolved(m, customer_id, participants) ==
    IF m.content = "" THEN <<>>
    ELSE IF m.actor_type = "CUSTOMER"
    THEN << [content |-> m.content, senderRole |-> "customer",
             senderId |-> customer_id, timestamp |-> m.ts_ms,
             originalDateTime |-> m.ts_ms] >>
    ELSE << [content |-> m.content, senderRole |-> "employee",
             senderId |-> KeyToEmpId(participants, ParticipantKey(m)),
             timestamp |-> m.ts_ms, originalDateTime |-> m.ts_ms] >>

\* the loop body of _build_messages_body_for_session for one message: the
\* list of zero or one batch entry it appends
BodyEntry(m, customer_id, participants) ==
    IF m.content = "" THEN <<>>
    ELSE IF m.actor_type = "CUSTOMER"
    THEN << [content |-> m.content, senderRole |-> "customer",
             senderId |-> customer_id, timestamp |-> m.ts_ms,
             originalDateTime |-> m.ts_ms] >>
    ELSE IF m.actor_type \in {"BOT", "AGENT"}
    THEN LET sender_id == KeyToEmpId(participants, ParticipantKey(m))
         IN  IF ~Truthy(sender_id) THEN <<>>
             ELSE << [content |-> m.content, senderRole |-> "employee",
                      senderId |-> sender_id, timestamp |-> m.ts_ms,
                      originalDateTime |-> m.ts_ms] >>
    ELSE <<>>

\* build_messages_body_for_session putting each entry in front of the batch
RECURSIVE build_messages_body_for_session_Prepend(_, _, _)
build_messages_body_for_session_Prepend(normalized_messages, customer_id, participants) ==
    IF normalized_messages = <<>> THEN <<>>
    ELSE build_messages_body_for_session_Prepend(Tail(normalized_messages),
                                                 customer_id, participants)
         \o BodyEntry(Head(normalized_messages), customer_id, participants)

\* _build_messages_body_for_session
RECURSIVE build_messages_body_for_session(_, _, _)
build_messages_body_for_session(normalized_messages, customer_id, participants) ==
    IF normalized_messages = <<>> THEN <<>>
    ELSE BodyEntry(Head(normalized_messages), customer_id, participants)
         \o build_messages_body_for_session(Tail(normalized_messages),
                                            customer_id, participants)

\* min(m.ts_ms for m in normalized_messages) as <<ms>>, <<>> (None) for an
\* empty list
FirstTs(normalized_messages) ==
    IF normalized_messages = <<>> THEN <<>>
    ELSE << CHOOSE t \in {normalized_messages[i].ts_ms :
                             i \in 1..Len(normalized_messages)} :
               \A i \in 1..Len(normalized_messages) :
                   t <= normalized_messages[i].ts_ms >>

(***************************************************************************)
(* Session results                                                         *)
(***************************************************************************)
\* SessionResult that records no HTTP code of the conversation call
SessionResult_NoConvCode(job, status, reason, http_code_conv, http_code_msgs, segments) ==
    [session_id |-> job.session_id, lote_id |-> job.lote_id,
     status |-> status, reason |-> reason,
     http_code_conv |-> 0, http_code_msgs |-> http_code_msgs,
     segments |-> segments]

\* SessionResult that gives a SENT result a reason
SessionResult_SentReason(job, status, reason, http_code_conv, http_code_msgs, segments) ==
    [session_id |-> job.session_id, lote_id |-> job.lote_id,
     status |-> status, reason |-> IF status = "SENT" THEN "OK" ELSE reason,
     http_code_conv |-> http_code_conv, http_code_msgs |-> http_code_msgs,
     segments |-> segments]

\* the result dict every exit of send_session_to_drellia and process_job
\* builds
SessionResult(job, status, reason, http_code_conv, http_code_msgs, segments) ==
    [session_id |-> job.session_id, lote_id |-> job.lote_id,
     status |-> status, reason |-> reason,
     http_code_conv |-> http_code_conv, http_code_msgs |-> http_code_msgs,
     segments |-> segments]

\* SegmentRecord without the number of messages sent
SegmentRecord_NoCount(id, key, employee_id, body) ==
    [conv_id |-> id, main_employee_key |-> key,
     main_employee_id |-> employee_id, n_messages |-> 0]

\* the segment record of a SENT result
SegmentRecord(id, key, employee_id, body) ==
    [conv_id |-> id, main_employee_key |-> key,
     main_employee_id |-> employee_id, n_messages |-> Len(body)]

NoResult == SessionResult([session_id |-> None, lote_id |-> None],
                          "NONE", None, 0, 0, <<>>)

MISSING_PROVIDER == "Falta DRELLIA_PROVIDER_ID en config"

\* f"{prefix}: {e}"
ExcReason(prefix, e) == prefix \o ": " \o e

(***************************************************************************)
(* drellia_client.py: _post_with_retry                                     *)
(***************************************************************************)
\* What one _session.post can end in: a response (with its status code and,
\* for a created conversation, its JSON body), requests.Timeout, or another
\* requests exception such as ConnectionError.
ResponseBody(object, has_data, data_id, top_id) ==
    [object |-> object, has_data |-> has_data, data_id |-> data_id,
     top_id |-> top_id]
\* a body that is no JSON (taken as {}) or an object without data and id
NoBody == ResponseBody(TRUE, FALSE, None, None)
\* a body that is JSON but no object (a list, a string, null), or an object
\* whose data is a non-empty list or string
NotAnObject == ResponseBody(FALSE, FALSE, None, None)
Response(code, body) == [kind |-> "response", code |-> code, body |-> body]
TimeoutOutcome == [kind |-> "timeout", code |-> 0, body |-> NoBody]
ErrorOutcome == [kind |-> "error", code |-> 0, body |-> NoBody]

HttpCodes == {200, 201, 400, 500}
ConvBodies == {NoBody, NotAnObject,
               ResponseBody(TRUE, TRUE, "conv-1", None),
               ResponseBody(TRUE, TRUE, None, "conv-1"),
               ResponseBody(TRUE, FALSE, None, "conv-1")}

ConvOutcomes ==
    {TimeoutOutcome, ErrorOutcome}
    \cup {Response(c, NoBody) : c \in HttpCodes \ {200, 201}}
    \cup {Response(c, b) : c \in {200, 201}, b \in ConvBodies}

MsgsOutcomes ==
    {TimeoutOutcome, ErrorOutcome} \cup {Response(c, NoBody) : c \in HttpCodes}

TIMEOUT_TEXT == "HTTPSConnectionPool(host='api.drellia.com', port=443): Read timed out."
CONNECTION_TEXT == "HTTPSConnectionPool(host='api.drellia.com', port=443): Max retries exceeded"
DB_TEXT == "connection to server lost"
ATTRIBUTE_TEXT == "'list' object has no attribute 'get'"

\* PostStep retrying every error response, not only those of the 5xx range
PostStep_RetryAnyError(attempt, outcome, max_retries, retry_on_5xx) ==
    CASE outcome.kind = "response" ->
           IF retry_on_5xx /\ 400 <= outcome.code /\ outcome.code < 600
              /\ attempt < max_retries
           THEN "retry" ELSE "return"
      [] outcome.kind = "timeout" ->
           IF attempt < max_retries THEN "retry" ELSE "raise"
      [] OTHER -> "error"

\* PostStep swallowing the last Timeout and falling through to the return
\* after the loop
PostStep_SwallowTimeout(attempt, outcome, max_retries, retry_on_5xx) ==
    CASE outcome.kind = "response" ->
           IF retry_on_5xx /\ 500 <= outcome.code /\ outcome.code < 600
              /\ attempt < max_retries
           THEN "retry" ELSE "return"
      [] outcome.kind = "timeout" ->
           IF attempt < max_retries THEN "retry" ELSE "return"
      [] OTHER -> "error"

\* PostStep raising once the retries of a 5xx response are used up
PostStep_RaiseOn5xx(attempt, outcome, max_retries, retry_on_5xx) ==
    CASE outcome.kind = "response" ->
           IF retry_on_5xx /\ 500 <= outcome.code /\ outcome.code < 600
           THEN IF attempt < max_retries THEN "retry" ELSE "raise"
           ELSE "return"
      [] outcome.kind = "timeout" ->
           IF attempt < max_retries THEN "retry" ELSE "raise"
      [] OTHER -> "error"

\* One iteration of the loop of _post_with_retry, given what the POST of
\* this attempt ended in: "retry" (sleep and continue), "return" (the
\* response goes to the caller), "raise" (the Timeout is re-raised) or
\* "error" (another exception, which the helper does not catch).
PostStep(attempt, outcome, max_retries, retry_on_5xx) ==
    CASE outcome.kind = "response" ->
           IF retry_on_5xx /\ 500 <= outcome.code /\ outcome.code < 600
              /\ attempt < max_retries
           THEN "retry" ELSE "return"
      [] outcome.kind = "timeout" ->
           IF attempt < max_retries THEN "retry" ELSE "raise"
      [] OTHER -> "error"

\* IsSuccess with every status below 500 taken for a success
IsSuccess_Below500(code) == code < 500

\* status_code in (200, 201): the test of both call sites for a success
IsSuccess(code) == code \in {200, 201}

\* body_conv.get("data") or body_conv, then .get("id")
ConvIdOf(body) == IF body.has_data THEN body.data_id ELSE body.top_id

(***************************************************************************)
(* customers_service.py                                                    *)
(***************************************************************************)
RAISED == "RAISED"

\* ensure_customer_for_job, given what its three collaborators do: the
\* lookup in customers, manager_customer.ensure_customer and the update of
\* envio_mensajes. The customer id, None, or RAISED when an exception leaves
\* the function.
ensure_customer_for_job(lookup, create, update) ==
    CASE lookup = "raise" -> RAISED
      [] lookup = "found" -> IF update = "raise" THEN RAISED ELSE "cust-1"
      [] OTHER -> IF create = "id" THEN "cust-1" ELSE None

(***************************************************************************)
(* One session: process_job and send_session_to_drellia                    *)
(***************************************************************************)
VARIABLES
    provider_id,        \* config.DRELLIA_PROVIDER_ID
    bot_employee_id,    \* config.DRELLIA_BOT_EMPLOYEE_ID
    agentes,            \* table agentes: lower-cased email -> drellia_uuid
    job,                \* the job being processed
    clock,              \* the processing time, in ms
    pc,                 \* position of process_job
    conn,               \* the per-session connection: none, open, closed
    customer_id,
    normalized,
    participants,
    main_key,
    conv_id,
    msgs_body,
    resp_conv,          \* status code of the conversation-create response
    resp_msgs,          \* status code of the message-send response
    call,               \* endpoint of the last _post_with_retry call
    attempt,            \* loop variable of _post_with_retry
    posts,              \* POSTs made by the last _post_with_retry call
    timeouts,           \* those of them that ended in requests.Timeout
    srv_errors,         \* those of them that ended in a 5xx response
    last_outcome,       \* what the latest POST ended in
    conv_calls,         \* calls of _post_with_retry for /v1/conversations
    msgs_calls,         \* calls of _post_with_retry for .../messages
    conv_payload,       \* the payload of the conversation-create call
    session_result,     \* the result process_job is about to record
    job_result,         \* what process_job returned
    exc,                \* text of the exception being handled
    envio_row,          \* the row of envio_mensajes of this session
    status_writes       \* completed calls of db.update_envio_status

(***************************************************************************)
(* One run of drellia_envio: the chunk scheduler                           *)
(***************************************************************************)
VARIABLES
    cfg_chunk_size,     \* config.CHUNK_SIZE
    cfg_max_workers,    \* config.MAX_WORKERS
    cfg_threshold,      \* config.TIMEOUT_ERROR_THRESHOLD as <<num, den>>
    envio,              \* table envio_mensajes: session -> status row
    run_pc,             \* position of drellia_envio
    jobs,               \* the fetched jobs, as the list of their sessions
    start,              \* loop variable of the chunk loop
    jpc,                \* per session: position of its process_job
    jconn,              \* per session: its connection: none, open, closed
    jres,               \* per session: the result of its process_job
    jexc,               \* per session: text of the exception being handled
    jwrites,            \* per session: completed status writes in this run
    completed,          \* futures of the chunk, in completion order
    ncollected,         \* futures the as_completed loop has consumed
    chunk_results,
    all_session_results,
    pauses,             \* cooldown pauses per chunk start, as a list
    summaries,          \* rows of envios_lote_resumen inserted
    response            \* what drellia_envio answered

envVars == <<provider_id, bot_employee_id, agentes, job, clock>>
runVars == <<cfg_chunk_size, cfg_max_workers, cfg_threshold, envio, run_pc,
             jobs, start, jpc, jconn, jres, jexc, jwrites, completed,
             ncollected, chunk_results, all_session_results, pauses,
             summaries, response>>
httpVars == <<call, attempt, posts, timeouts, srv_errors, last_outcome,
              conv_calls, msgs_calls>>
sendVars == <<participants, main_key, conv_id, msgs_body, resp_conv, resp_msgs,
              conv_payload>>
jobVars == <<conn, customer_id, normalized, session_result, job_result, exc,
             envio_row, status_writes>>
(***************************************************************************)
(* Two runs of one chunk of two sessions over the shared customers table   *)
(***************************************************************************)
VARIABLES
    lc_in,              \* per run and session: job data and remote answers
    lc_customers,       \* per run: phones with a synced row in customers
    lc_pc,              \* per run and session: position of process_job
    lc_res              \* per run and session: the result of process_job

localVars == <<lc_in, lc_customers, lc_pc, lc_res>>

(***************************************************************************)
(* get_drellia_api_key called by the worker threads of a process           *)
(***************************************************************************)
VARIABLES
    ak_env,             \* config.DRELLIA_API_KEY_ENV
    ak_secret,          \* text of the secret config.DRELLIA_SECRET_NAME
    ak_rotated,         \* the secret was changed while the process runs
    ak_cache,           \* _api_key_cache
    ak_pc,              \* per caller: position in get_drellia_api_key
    ak_key,             \* per caller: the local key, then the value returned
    ak_writes           \* assignments to _api_key_cache so far

keyVars == <<ak_env, ak_secret, ak_rotated, ak_cache, ak_pc, ak_key, ak_writes>>

(***************************************************************************)
(* normalize_messages called on several encodings of the same messages     *)
(***************************************************************************)
VARIABLES
    enc_in,             \* per encoding: the value of column mensajes
    enc_out,            \* per encoding: what normalize_messages returned
    enc_done            \* the encodings normalize_messages was called on

encVars == <<enc_in, enc_out, enc_done>>

(***************************************************************************)
(* aggregate_session_result called on a list of segment outcomes           *)
(***************************************************************************)
VARIABLES
    agg_in,             \* segment_results
    agg_out             \* the dict returned, <<>> before the call

aggVars == <<agg_in, agg_out>>

(***************************************************************************)
(* drellia_envio invoked several times, one run after another, over the    *)
(* same table envio_mensajes                                               *)
(***************************************************************************)
VARIABLES
    past                \* per ended run: the sessions it dispatched and those
                        \* whose status write took effect

histVars == <<past>>

\* the variables of the specifications other than Spec and SpecRun
otherVars == <<localVars, keyVars, encVars, aggVars, histVars>>

sessionVars == <<envVars, pc, httpVars, sendVars, jobVars>>
vars == <<sessionVars, runVars, otherVars>>

\* the raw records a job's message list is made of in this specification:
\* one per actor type, the i-th of a list carrying the i-th content and a
\* timestamp that never decreases along the list
RawLetters == {"user", "bot", "operator"}
RawRecord(origin, i) ==
    [message_time |-> [fmt |-> "calendar", ms |-> 1000 * ((i + 1) \div 2)],
     us_origen |-> origin,
     mensaje |-> "m" \o ToString(i),
     operador_email |-> IF origin = "operator" THEN "ana@x.com" ELSE None,
     agent_email |-> None]
RawLists ==
    UNION { { [i \in 1..n |-> RawRecord(f[i], i)] : f \in [1..n -> RawLetters] }
            : n \in 0..MaxMsgs }

EmptyTable == [e \in {} |-> None]
AnaTable == [e \in {"ana@x.com"} |-> "emp-ana"]

NoOutcome == [kind |-> "none", code |-> 0]
NoPayload == [providerId |-> None, employeeId |-> None, customerId |-> None,
              originalDateTime |-> <<>>]

PendingRow == [estado |-> "PENDING", http_code_conv |-> 0, http_code_msgs |-> 0,
               error_message |-> None]

\* the scheduler before drellia_envio is called
RunIdle ==
    /\ cfg_chunk_size = 1
    /\ cfg_max_workers = 1
    /\ cfg_threshold = <<1, 5>>
    /\ envio = <<>>
    /\ run_pc = "idle"
    /\ jobs = <<>>
    /\ start = 0
    /\ jpc = <<>>
    /\ jconn = <<>>
    /\ jres = <<>>
    /\ jexc = <<>>
    /\ jwrites = <<>>
    /\ completed = <<>>
    /\ ncollected = 0
    /\ chunk_results = <<>>
    /\ all_session_results = <<>>
    /\ pauses = <<>>
    /\ summaries = <<>>
    /\ response = [status |-> "none"]

\* the variables of the other specifications, unused
LocalIdle ==
    /\ lc_in = <<>>
    /\ lc_customers = <<>>
    /\ lc_pc = <<>>
    /\ lc_res = <<>>

KeyIdle ==
    /\ ak_env = None
    /\ ak_secret = None
    /\ ak_rotated = FALSE
    /\ ak_cache = None
    /\ ak_pc = <<>>
    /\ ak_key = <<>>
    /\ ak_writes = 0

EncIdle ==
    /\ enc_in = <<>>
    /\ enc_out = <<>>
    /\ enc_done = {}

AggIdle ==
    /\ agg_in = <<>>
    /\ agg_out = <<>>

HistIdle == past = <<>>

OtherIdle == LocalIdle /\ KeyIdle /\ EncIdle /\ AggIdle /\ HistIdle

Init ==
    /\ RunIdle
    /\ OtherIdle
    /\ provider_id \in {None, "prov-1"}
    /\ bot_employee_id \in {None, "emp-bot"}
    /\ agentes \in {EmptyTable, AnaTable}
    /\ job \in [session_id : {"s1"}, lote_id : {"L1"},
                mensajes : RawLists,
                agent_drellia_id : {None, "emp-fallback"}]
    /\ clock = 9000
    /\ pc = "start"
    /\ conn = "none"
    /\ customer_id = None
    /\ normalized = <<>>
    /\ participants = <<>>
    /\ main_key = None
    /\ conv_id = None
    /\ msgs_body = <<>>
    /\ resp_conv = 0
    /\ resp_msgs = 0
    /\ call = "none"
    /\ attempt = 0
    /\ posts = 0
    /\ timeouts = 0
    /\ srv_errors = 0
    /\ last_outcome = NoOutcome
    /\ conv_calls = 0
    /\ msgs_calls = 0
    /\ conv_payload = NoPayload
    /\ session_result = NoResult
    /\ job_result = NoResult
    /\ exc = None
    /\ envio_row = PendingRow
    /\ status_writes = 0

\* update_envio_status_from_session_result: the row db.update_envio_status
\* writes for a session result
RowOf(result) ==
    [estado |-> result.status, http_code_conv |-> result.http_code_conv,
     http_code_msgs |-> result.http_code_msgs, error_message |-> result.reason]

\* process_job, line 122: the connection is acquired before the try block,
\* so a failure of db.get_pg_conn leaves process_job as an exception
GetConn ==
    /\ pc = "start"
    /\ \E ok \in BOOLEAN :
         IF ok THEN conn' = "open" /\ pc' = "customer" /\ exc' = exc
         ELSE conn' = conn /\ pc' = "raised" /\ exc' = DB_TEXT
    /\ UNCHANGED <<otherVars, runVars, envVars, httpVars, sendVars, customer_id, normalized,
                   session_result, job_result, envio_row, status_writes>>

\* EnsureCustomer going on to the normalization without a customer id
EnsureCustomer_Continue ==
    /\ pc = "customer"
    /\ \E lookup \in {"found", "absent", "raise"},
          create \in {"id", "none", "raise"},
          update \in {"ok", "raise"} :
         LET r == ensure_customer_for_job(lookup, create, update) IN
         /\ customer_id' = IF r = RAISED THEN customer_id ELSE r
         /\ exc' = IF r = RAISED THEN DB_TEXT ELSE exc
         /\ session_result' = session_result
         /\ pc' = IF r = RAISED THEN "except" ELSE "normalize"
    /\ UNCHANGED <<otherVars, runVars, envVars, httpVars, sendVars, conn, normalized, job_result,
                   envio_row, status_writes>>

\* process_job, lines 126-142: customer resolution
EnsureCustomer ==
    /\ pc = "customer"
    /\ \E lookup \in {"found", "absent", "raise"},
          create \in {"id", "none", "raise"},
          update \in {"ok", "raise"} :
         LET r == ensure_customer_for_job(lookup, create, update) IN
         /\ customer_id' = IF r = RAISED THEN customer_id ELSE r
         /\ exc' = IF r = RAISED THEN DB_TEXT ELSE exc
         /\ session_result' =
              IF r = None
              THEN SessionResult(job, "FAILED", "CUSTOMER_RESOLUTION_FAILED",
                                 0, 0, <<>>)
              ELSE session_result
         /\ pc' = CASE r = RAISED -> "except"
                    [] r = None -> "write"
                    [] OTHER -> "normalize"
    /\ UNCHANGED <<otherVars, runVars, envVars, httpVars, sendVars, conn, normalized, job_result,
                   envio_row, status_writes>>

\* process_job, lines 144-161: normalization and the skip of a session
\* without valid messages
Normalize ==
    /\ pc = "normalize"
    /\ normalized' = normalize_messages(job.mensajes, clock)
    /\ IF normalized' = <<>>
       THEN /\ session_result' =
                 SessionResult(job, "SKIPPED", "NO_VALID_MESSAGES", 0, 0, <<>>)
            /\ pc' = "write"
       ELSE /\ session_result' = session_result
            /\ pc' = "send"
    /\ UNCHANGED <<otherVars, runVars, envVars, httpVars, sendVars, conn, customer_id, job_result,
                   exc, envio_row, status_writes>>

\* SendSession with the provider id checked after the participants
SendSession_ProviderLast ==
    /\ pc = "send"
    /\ \E db_ok \in BOOLEAN :
         LET parts == build_participants_from_messages(
                          agentes, bot_employee_id, job, normalized)
             valid == valid_participants(parts)
             mainp == valid[MainIndex(valid)]
             skip(reason) == SessionResult(job, "SKIPPED", reason, 0, 0, <<>>)
         IN
         IF ~db_ok /\ NeedsAgentLookup(normalized)
         THEN /\ pc' = "except"
              /\ exc' = DB_TEXT
              /\ UNCHANGED <<httpVars, sendVars, session_result>>
         ELSE IF parts = <<>>
         THEN /\ session_result' = skip("NO_EMPLOYEES_IN_SESSION")
              /\ pc' = "write"
              /\ UNCHANGED <<httpVars, sendVars, exc>>
         ELSE IF valid = <<>>
         THEN /\ session_result' = skip("NO_RESOLVED_EMPLOYEE_IDS")
              /\ pc' = "write"
              /\ participants' = parts
              /\ UNCHANGED <<httpVars, main_key, conv_id, msgs_body, resp_conv,
                             resp_msgs, conv_payload, exc>>
         ELSE IF ~Truthy(provider_id)
         THEN /\ session_result' =
                   SessionResult(job, "FAILED", MISSING_PROVIDER, 0, 0, <<>>)
              /\ pc' = "write"
              /\ UNCHANGED <<httpVars, sendVars, exc>>
         ELSE /\ participants' = parts
              /\ main_key' = mainp.key
              /\ conv_payload' =
                   [providerId |-> provider_id,
                    employeeId |-> mainp.employee_id,
                    customerId |-> customer_id,
                    originalDateTime |-> FirstTs(normalized)]
              /\ pc' = "conv_post"
              /\ call' = "conv"
              /\ conv_calls' = conv_calls + 1
              /\ attempt' = 0
              /\ posts' = 0
              /\ timeouts' = 0
              /\ srv_errors' = 0
              /\ last_outcome' = NoOutcome
              /\ UNCHANGED <<msgs_calls, conv_id, msgs_body, resp_conv,
                             resp_msgs, session_result, exc>>
    /\ UNCHANGED <<otherVars, runVars, envVars, conn, customer_id, normalized, job_result,
                   envio_row, status_writes>>

\* send_session_to_drellia, lines 334-428: the preconditions, the
\* participants, the main employee and the conversation payload
SendSession ==
    /\ pc = "send"
    /\ \E db_ok \in BOOLEAN :
         LET parts == build_participants_from_messages(
                          agentes, bot_employee_id, job, normalized)
             valid == valid_participants(parts)
             mainp == valid[MainIndex(valid)]
             skip(reason) == SessionResult(job, "SKIPPED", reason, 0, 0, <<>>)
         IN
         IF ~Truthy(provider_id)
         THEN /\ session_result' =
                   SessionResult(job, "FAILED", MISSING_PROVIDER, 0, 0, <<>>)
              /\ pc' = "write"
              /\ UNCHANGED <<httpVars, sendVars, exc>>
         ELSE IF ~db_ok /\ NeedsAgentLookup(normalized)
         THEN /\ pc' = "except"
              /\ exc' = DB_TEXT
              /\ UNCHANGED <<httpVars, sendVars, session_result>>
         ELSE IF parts = <<>>
         THEN /\ session_result' = skip("NO_EMPLOYEES_IN_SESSION")
              /\ pc' = "write"
              /\ UNCHANGED <<httpVars, sendVars, exc>>
         ELSE IF valid = <<>>
         THEN /\ session_result' = skip("NO_RESOLVED_EMPLOYEE_IDS")
              /\ pc' = "write"
              /\ participants' = parts
              /\ UNCHANGED <<httpVars, main_key, conv_id, msgs_body, resp_conv,
                             resp_msgs, conv_payload, exc>>
         ELSE /\ participants' = parts
              /\ main_key' = mainp.key
              /\ conv_payload' =
                   [providerId |-> provider_id,
                    employeeId |-> mainp.employee_id,
                    customerId |-> customer_id,
                    originalDateTime |-> FirstTs(normalized)]
              /\ pc' = "conv_post"
              /\ call' = "conv"
              /\ conv_calls' = conv_calls + 1
              /\ attempt' = 0
              /\ posts' = 0
              /\ timeouts' = 0
              /\ srv_errors' = 0
              /\ last_outcome' = NoOutcome
              /\ UNCHANGED <<msgs_calls, conv_id, msgs_body, resp_conv,
                             resp_msgs, session_result, exc>>
    /\ UNCHANGED <<otherVars, runVars, envVars, conn, customer_id, normalized, job_result,
                   envio_row, status_writes>>

\* the bookkeeping of one POST of _post_with_retry
CountPost(outcome) ==
    /\ posts' = posts + 1
    /\ timeouts' = timeouts + (IF outcome.kind = "timeout" THEN 1 ELSE 0)
    /\ srv_errors' = srv_errors +
          (IF outcome.kind = "response" /\ outcome.code >= 500 THEN 1 ELSE 0)
    /\ last_outcome' = [kind |-> outcome.kind, code |-> outcome.code]

\* send_session_to_drellia, lines 430-511: one POST of the conversation-create
\* call and, when _post_with_retry ends with it, what the dispatcher does
\* with the outcome up to the message batch
ConvPost ==
    /\ pc = "conv_post"
    /\ \E outcome \in ConvOutcomes :
         LET step == PostStep(attempt, outcome, MAX_RETRIES_ARG, TRUE)
             id == ConvIdOf(outcome.body)
             body == build_messages_body_for_session(
                         normalized, customer_id, participants)
             failed(reason, code) ==
                 SessionResult(job, "FAILED", reason, code, 0, <<>>)
         IN
         /\ CountPost(outcome)
         /\ CASE step = "retry" ->
                   /\ attempt' = attempt + 1
                   /\ pc' = pc
                   /\ UNCHANGED <<call, msgs_calls, conv_id, msgs_body,
                                  resp_conv, session_result, exc>>
              [] step = "error" ->
                   /\ pc' = "except"
                   /\ exc' = CONNECTION_TEXT
                   /\ UNCHANGED <<call, attempt, msgs_calls, conv_id, msgs_body,
                                  resp_conv, session_result>>
              [] step = "raise" ->
                   /\ session_result' =
                        failed(ExcReason("EXCEPTION_TIMEOUT_CONV", TIMEOUT_TEXT), 0)
                   /\ pc' = "write"
                   /\ UNCHANGED <<call, attempt, msgs_calls, conv_id, msgs_body,
                                  resp_conv, exc>>
              [] OTHER ->
                   /\ resp_conv' = outcome.code
                   /\ exc' = IF IsSuccess(outcome.code) /\ ~outcome.body.object
                             THEN ATTRIBUTE_TEXT ELSE exc
                   /\ IF ~IsSuccess(outcome.code)
                      THEN /\ session_result' =
                                failed("CONV_CREATE_FAILED", outcome.code)
                           /\ pc' = "write"
                           /\ UNCHANGED <<call, attempt, msgs_calls, conv_id,
                                          msgs_body>>
                      ELSE IF ~outcome.body.object
                      THEN /\ pc' = "except"
                           /\ UNCHANGED <<call, attempt, msgs_calls, conv_id,
                                          msgs_body, session_result>>
                      ELSE IF ~Truthy(id)
                      THEN /\ session_result' =
                                failed("CONV_CREATE_NO_ID", outcome.code)
                           /\ pc' = "write"
                           /\ UNCHANGED <<call, attempt, msgs_calls, conv_id,
                                          msgs_body>>
                      ELSE IF body = <<>>
                      THEN /\ session_result' =
                                SessionResult(job, "SKIPPED", "NO_VALID_MESSAGES",
                                              outcome.code, 0, <<>>)
                           /\ pc' = "write"
                           /\ conv_id' = id
                           /\ UNCHANGED <<call, attempt, msgs_calls, msgs_body>>
                      ELSE /\ conv_id' = id
                           /\ msgs_body' = body
                           /\ pc' = "msgs_call"
                           /\ session_result' = session_result
                           /\ UNCHANGED <<call, attempt, msgs_calls>>
    /\ UNCHANGED <<otherVars, runVars, envVars, conv_calls, participants, main_key, resp_msgs,
                   conv_payload, conn, customer_id, normalized, job_result,
                   envio_row, status_writes>>

\* send_session_to_drellia, lines 513-524: the message-send call enters
\* _post_with_retry
MsgsCall ==
    /\ pc = "msgs_call"
    /\ pc' = "msgs_post"
    /\ call' = "msgs"
    /\ msgs_calls' = msgs_calls + 1
    /\ attempt' = 0
    /\ posts' = 0
    /\ timeouts' = 0
    /\ srv_errors' = 0
    /\ last_outcome' = NoOutcome
    /\ UNCHANGED <<otherVars, runVars, envVars, conv_calls, sendVars, jobVars>>

\* send_session_to_drellia, lines 516-587: one POST of the message-send call
\* and, when _post_with_retry ends with it, the session result
MsgsPost ==
    /\ pc = "msgs_post"
    /\ \E outcome \in MsgsOutcomes :
         LET step == PostStep(attempt, outcome, MAX_RETRIES_ARG, TRUE) IN
         /\ CountPost(outcome)
         /\ CASE step = "retry" ->
                   /\ attempt' = attempt + 1
                   /\ pc' = pc
                   /\ UNCHANGED <<resp_msgs, session_result, exc>>
              [] step = "error" ->
                   /\ pc' = "except"
                   /\ exc' = CONNECTION_TEXT
                   /\ UNCHANGED <<attempt, resp_msgs, session_result>>
              [] step = "raise" ->
                   /\ session_result' =
                        SessionResult(job, "FAILED",
                            ExcReason("EXCEPTION_TIMEOUT_MSGS", TIMEOUT_TEXT),
                            resp_conv, 0, <<>>)
                   /\ pc' = "write"
                   /\ UNCHANGED <<attempt, resp_msgs, exc>>
              [] OTHER ->
                   /\ resp_msgs' = outcome.code
                   /\ pc' = "write"
                   /\ session_result' =
                        IF ~IsSuccess(outcome.code)
                        THEN SessionResult(job, "FAILED", "MESSAGES_FAILED",
                                           resp_conv, outcome.code, <<>>)
                        ELSE SessionResult(job, "SENT", None,
                                 resp_conv, outcome.code,
                                 << SegmentRecord(conv_id, main_key,
                                        conv_payload.employeeId, msgs_body) >>)
                   /\ UNCHANGED <<attempt, exc>>
    /\ UNCHANGED <<otherVars, runVars, envVars, call, conv_calls, msgs_calls, participants, main_key,
                   conv_id, msgs_body, resp_conv, conv_payload, conn,
                   customer_id, normalized, job_result, envio_row,
                   status_writes>>

\* process_job, lines 141-142, 160-161, 172-178 and 207-211: the status of
\* the session is written and its result returned, the finally block closing
\* the connection; a failure of the write is an exception
WriteStatus ==
    /\ pc = "write"
    /\ \E ok \in BOOLEAN :
         IF ok
         THEN /\ envio_row' = RowOf(session_result)
              /\ status_writes' = status_writes + 1
              /\ job_result' = session_result
              /\ conn' = "closed"
              /\ pc' = "done"
              /\ exc' = exc
         ELSE /\ pc' = "except"
              /\ exc' = DB_TEXT
              /\ UNCHANGED <<envio_row, status_writes, job_result, conn>>
    /\ UNCHANGED <<otherVars, runVars, envVars, httpVars, sendVars, customer_id, normalized,
                   session_result>>

\* process_job, lines 180-211: the handler of any exception of the try
\* block, and the finally block
HandleException ==
    /\ pc = "except"
    /\ \E ok \in BOOLEAN :
         LET failed == SessionResult(job, "FAILED", ExcReason("EXCEPTION", exc),
                                     0, 0, <<>>)
         IN  IF ok
             THEN /\ envio_row' = RowOf(failed)
                  /\ status_writes' = status_writes + 1
                  /\ job_result' = failed
             ELSE /\ job_result' =
                       SessionResult(job, "FAILED",
                           ExcReason("EXCEPTION_NO_UPDATE", exc), 0, 0, <<>>)
                  /\ UNCHANGED <<envio_row, status_writes>>
    /\ conn' = "closed"
    /\ pc' = "done"
    /\ UNCHANGED <<otherVars, runVars, envVars, httpVars, sendVars, customer_id, normalized,
                   session_result, exc>>

Next ==
    \/ GetConn
    \/ EnsureCustomer
    \/ Normalize
    \/ SendSession
    \/ ConvPost
    \/ MsgsCall
    \/ MsgsPost
    \/ WriteStatus
    \/ HandleException

Spec == Init /\ [][Next]_vars

(***************************************************************************)
(* drellia_envio: one processing run over the PENDING sessions             *)
(***************************************************************************)
Sessions == 1..NumJobs

\* the job dict of a fetched row
JobOf(s) == [session_id |-> "s" \o ToString(s), lote_id |-> "L1"]

\* What the try block of process_job reaches before its status write: a
\* session result (exception = None) or an exception.  The outcomes are
\* among those the specification Spec reaches, the segments of a SENT
\* result left out.
TryOutcome(exception, result) == [exception |-> exception, result |-> result]

\* TryOutcomes of a process_job that aggregates per-segment results: the
\* result of a session with a sent and a failed segment is PARTIAL
TryOutcomes_Aggregated(s) ==
    {TryOutcome(None, SessionResult(JobOf(s), "SENT", None, 201, 200, <<>>)),
     TryOutcome(None, SessionResult(JobOf(s), "PARTIAL", "MESSAGES_FAILED",
                                    201, 500, <<>>)),
     TryOutcome(None, SessionResult(JobOf(s), "FAILED", "CONV_CREATE_FAILED",
                                    500, 0, <<>>)),
     TryOutcome(CONNECTION_TEXT, NoResult)}

TryOutcomes(s) ==
    {TryOutcome(None, SessionResult(JobOf(s), "SENT", None, 201, 200, <<>>)),
     TryOutcome(None, SessionResult(JobOf(s), "FAILED", "CONV_CREATE_FAILED",
                                    500, 0, <<>>)),
     TryOutcome(None, SessionResult(JobOf(s), "FAILED", "MESSAGES_FAILED",
                                    201, 500, <<>>)),
     TryOutcome(None, SessionResult(JobOf(s), "FAILED",
                    ExcReason("EXCEPTION_TIMEOUT_CONV", TIMEOUT_TEXT),
                    0, 0, <<>>)),
     TryOutcome(None, SessionResult(JobOf(s), "SKIPPED",
                                    "NO_EMPLOYEES_IN_SESSION", 0, 0, <<>>)),
     TryOutcome(CONNECTION_TEXT, NoResult),
     TryOutcome(DB_TEXT, NoResult)}

\* jobs[start:start + config.CHUNK_SIZE]
Chunk == SubSeq(jobs, start + 1,
                IF start + cfg_chunk_size < Len(jobs)
                THEN start + cfg_chunk_size ELSE Len(jobs))

InChunk(s) == \E i \in 1..Len(Chunk) : Chunk[i] = s

\* a pool with one worker per job of the chunk, whatever MAX_WORKERS is
PoolSize_ChunkLen == Len(Chunk)

\* min(config.MAX_WORKERS, len(chunk))
PoolSize == IF cfg_max_workers < Len(Chunk) THEN cfg_max_workers ELSE Len(Chunk)

\* sessions whose process_job is executing on a worker thread
Running == {s \in DOMAIN jpc : jpc[s] \in {"body", "write", "except"}}

Queued == {s \in DOMAIN jpc : jpc[s] = "queued"}

\* "HTTPSConnectionPool" in reason or "TIMEOUT" in reason.upper()
HasTimeoutMarker(reason) ==
    \E prefix \in {"EXCEPTION", "EXCEPTION_NO_UPDATE", "EXCEPTION_TIMEOUT_CONV",
                   "EXCEPTION_TIMEOUT_MSGS"},
       text \in {TIMEOUT_TEXT, CONNECTION_TEXT, DB_TEXT} :
         /\ reason = ExcReason(prefix, text)
         /\ \/ prefix \in {"EXCEPTION_TIMEOUT_CONV", "EXCEPTION_TIMEOUT_MSGS"}
            \/ text \in {TIMEOUT_TEXT, CONNECTION_TEXT}

\* IsTimeoutError counting every FAILED result
IsTimeoutError_AnyFailed(r) == r.status = "FAILED"

IsTimeoutError(r) ==
    r.status = "FAILED" /\ Truthy(r.reason) /\ HasTimeoutMarker(r.reason)

\* sum(1 for r in chunk_results if ...), lines 284-290
CountTimeoutErrors(results) ==
    Cardinality({i \in 1..Len(results) : IsTimeoutError(results[i])})

\* sum(1 for r in all_session_results if r["status"] == status)
CountStatus(results, status) ==
    Cardinality({i \in 1..Len(results) : results[i].status = status})

\* MustPause comparing with > where the code compares with >=
MustPause_Strict(results, size, threshold) ==
    CountTimeoutErrors(results) * threshold[2] > threshold[1] * size

\* timeout_errors / len(chunk) >= config.TIMEOUT_ERROR_THRESHOLD
MustPause(results, size, threshold) ==
    LET timeout_errors == CountTimeoutErrors(results) IN
    IF size > 0
    THEN timeout_errors * threshold[2] >= threshold[1] * size
    ELSE 0 >= threshold[1]

\* Summary counting as failed every session that was not sent
Summary_NotSentAsFailed(results) ==
    [total |-> Len(results),
     sent_ok |-> CountStatus(results, "SENT"),
     sent_failed |-> Len(results) - CountStatus(results, "SENT"),
     per_session |-> results]

\* the row insert_lote_summary writes
Summary(results) ==
    [total |-> Len(results),
     sent_ok |-> CountStatus(results, "SENT"),
     sent_failed |-> CountStatus(results, "FAILED"),
     per_session |-> results]

\* the body of the answer with status OK
OkResponse(results) ==
    [status |-> "OK",
     total_sesiones |-> Len(results),
     enviadas_ok |-> CountStatus(results, "SENT"),
     enviadas_error |-> CountStatus(results, "FAILED"),
     enviadas_parcial |-> CountStatus(results, "PARTIAL"),
     skipped |-> CountStatus(results, "SKIPPED")]

NoResponse == [status |-> "none"]
ErrorResponse == [status |-> "ERROR"]
NoDataResponse == [status |-> "NO_DATA"]

\* PendingFrom without the filter on estado_envio: every row of the table
PendingFrom_AnyEstado(table, s) ==
    [i \in 1..(Len(table) + 1 - s) |-> i + s - 1]

\* fetch_pending_from_envio: the PENDING rows, in the order of the query
RECURSIVE PendingFrom(_, _)
PendingFrom(table, s) ==
    IF s > Len(table) THEN <<>>
    ELSE (IF table[s].estado = "PENDING" THEN <<s>> ELSE <<>>)
         \o PendingFrom(table, s + 1)

\* the session variables while the scheduler is the system under study
SessionIdle ==
    /\ provider_id = "prov-1"
    /\ bot_employee_id = "emp-bot"
    /\ agentes = EmptyTable
    /\ job = [session_id |-> None, lote_id |-> None, mensajes |-> <<>>,
              agent_email |-> None, agent_drellia_id |-> None]
    /\ clock = 9000
    /\ pc = "idle"
    /\ conn = "none"
    /\ customer_id = None
    /\ normalized = <<>>
    /\ participants = <<>>
    /\ main_key = None
    /\ conv_id = None
    /\ msgs_body = <<>>
    /\ resp_conv = 0
    /\ resp_msgs = 0
    /\ call = "none"
    /\ attempt = 0
    /\ posts = 0
    /\ timeouts = 0
    /\ srv_errors = 0
    /\ last_outcome = NoOutcome
    /\ conv_calls = 0
    /\ msgs_calls = 0
    /\ conv_payload = NoPayload
    /\ session_result = NoResult
    /\ job_result = NoResult
    /\ exc = None
    /\ envio_row = PendingRow
    /\ status_writes = 0

InitRun ==
    /\ SessionIdle
    /\ OtherIdle
    /\ cfg_chunk_size \in CHUNK_SIZES
    /\ cfg_max_workers \in MAX_WORKERS_VALUES
    /\ cfg_threshold \in TIMEOUT_ERROR_THRESHOLDS
    /\ \E n \in 0..NumJobs : envio = [s \in 1..n |-> PendingRow]
    /\ run_pc = "fetch"
    /\ jobs = <<>>
    /\ start = 0
    /\ jpc = [s \in Sessions |-> "idle"]
    /\ jconn = [s \in Sessions |-> "none"]
    /\ jres = [s \in Sessions |-> NoResult]
    /\ jexc = [s \in Sessions |-> None]
    /\ jwrites = [s \in Sessions |-> 0]
    /\ completed = <<>>
    /\ ncollected = 0
    /\ chunk_results = <<>>
    /\ all_session_results = <<>>
    /\ pauses = <<>>
    /\ summaries = <<>>
    /\ response = NoResponse

\* drellia_envio, lines 238-254: the PENDING sessions are fetched; an
\* exception of the connection or of the query reaches the outer handler
Fetch ==
    /\ run_pc = "fetch"
    /\ \E ok \in BOOLEAN :
         IF ~ok
         THEN /\ run_pc' = "error"
              /\ response' = ErrorResponse
              /\ jobs' = jobs
         ELSE /\ jobs' = PendingFrom(envio, 1)
              /\ IF jobs' = <<>>
                 THEN run_pc' = "no_data" /\ response' = NoDataResponse
                 ELSE run_pc' = "submit" /\ response' = response
    /\ UNCHANGED <<otherVars, sessionVars, cfg_chunk_size, cfg_max_workers, cfg_threshold,
                   envio, start, jpc, jconn, jres, jexc, jwrites, completed,
                   ncollected, chunk_results, all_session_results, pauses,
                   summaries>>

\* drellia_envio, lines 265-276: the next chunk is cut and each of its jobs
\* is submitted to a fresh pool
SubmitChunk ==
    /\ run_pc = "submit"
    /\ jpc' = [s \in Sessions |-> IF InChunk(s) THEN "queued" ELSE jpc[s]]
    /\ completed' = <<>>
    /\ ncollected' = 0
    /\ chunk_results' = <<>>
    /\ run_pc' = "collect"
    /\ UNCHANGED <<otherVars, sessionVars, cfg_chunk_size, cfg_max_workers, cfg_threshold,
                   envio, jobs, start, jconn, jres, jexc, jwrites,
                   all_session_results, pauses, summaries, response>>

\* A worker of the pool takes the oldest queued job and process_job starts:
\* line 122 acquires the connection before the try block, so a failure
\* ends process_job with an exception, which the future keeps.
JobStart(s) ==
    /\ run_pc \in {"collect", "aborting"}
    /\ jpc[s] = "queued"
    /\ \A t \in Queued : s <= t
    /\ Cardinality(Running) < PoolSize
    /\ \E ok \in BOOLEAN :
         IF ok
         THEN /\ jpc' = [jpc EXCEPT ![s] = "body"]
              /\ jconn' = [jconn EXCEPT ![s] = "open"]
              /\ UNCHANGED <<jexc, completed>>
         ELSE /\ jpc' = [jpc EXCEPT ![s] = "raised"]
              /\ jexc' = [jexc EXCEPT ![s] = DB_TEXT]
              /\ completed' = Append(completed, s)
              /\ jconn' = jconn
    /\ UNCHANGED <<otherVars, sessionVars, cfg_chunk_size, cfg_max_workers, cfg_threshold,
                   envio, run_pc, jobs, start, jres, jwrites, ncollected,
                   chunk_results, all_session_results, pauses, summaries,
                   response>>

\* process_job, lines 123-178 up to the status write
JobBody(s) ==
    /\ jpc[s] = "body"
    /\ \E o \in TryOutcomes(s) :
         IF o.exception = None
         THEN /\ jres' = [jres EXCEPT ![s] = o.result]
              /\ jpc' = [jpc EXCEPT ![s] = "write"]
              /\ jexc' = jexc
         ELSE /\ jexc' = [jexc EXCEPT ![s] = o.exception]
              /\ jpc' = [jpc EXCEPT ![s] = "except"]
              /\ jres' = jres
    /\ UNCHANGED <<otherVars, sessionVars, cfg_chunk_size, cfg_max_workers, cfg_threshold,
                   envio, run_pc, jobs, start, jconn, jwrites, completed,
                   ncollected, chunk_results, all_session_results, pauses,
                   summaries, response>>

\* JobWrite with a statement after the status write that raises: the write
\* has taken effect and the exception handler runs all the same
JobWrite_ThenRaise(s) ==
    /\ jpc[s] = "write"
    /\ envio' = [envio EXCEPT ![s] = RowOf(jres[s])]
    /\ jwrites' = [jwrites EXCEPT ![s] = @ + 1]
    /\ jexc' = [jexc EXCEPT ![s] = DB_TEXT]
    /\ jpc' = [jpc EXCEPT ![s] = "except"]
    /\ UNCHANGED <<otherVars, sessionVars, cfg_chunk_size, cfg_max_workers, cfg_threshold,
                   run_pc, jobs, start, jres, jconn, completed, ncollected,
                   chunk_results, all_session_results, pauses, summaries,
                   response>>

\* process_job: update_envio_status_from_session_result in the try block,
\* then return through the finally block
JobWrite(s) ==
    /\ jpc[s] = "write"
    /\ \E ok \in BOOLEAN :
         IF ok
         THEN /\ envio' = [envio EXCEPT ![s] = RowOf(jres[s])]
              /\ jwrites' = [jwrites EXCEPT ![s] = @ + 1]
              /\ jconn' = [jconn EXCEPT ![s] = "closed"]
              /\ jpc' = [jpc EXCEPT ![s] = "done"]
              /\ completed' = Append(completed, s)
              /\ jexc' = jexc
         ELSE /\ jexc' = [jexc EXCEPT ![s] = DB_TEXT]
              /\ jpc' = [jpc EXCEPT ![s] = "except"]
              /\ UNCHANGED <<envio, jwrites, jconn, completed>>
    /\ UNCHANGED <<otherVars, sessionVars, cfg_chunk_size, cfg_max_workers, cfg_threshold,
                   run_pc, jobs, start, jres, ncollected, chunk_results,
                   all_session_results, pauses, summaries, response>>

\* JobExcept without the finally block: the handler returns and the
\* connection stays open
JobExcept_NoFinally(s) ==
    /\ jpc[s] = "except"
    /\ jres' = [jres EXCEPT ![s] =
                  SessionResult(JobOf(s), "FAILED",
                      ExcReason("EXCEPTION_NO_UPDATE", jexc[s]), 0, 0, <<>>)]
    /\ jpc' = [jpc EXCEPT ![s] = "done"]
    /\ completed' = Append(completed, s)
    /\ UNCHANGED <<otherVars, sessionVars, cfg_chunk_size, cfg_max_workers, cfg_threshold,
                   envio, jwrites, jconn, run_pc, jobs, start, jexc,
                   ncollected, chunk_results, all_session_results, pauses,
                   summaries, response>>

\* process_job, lines 180-211: the exception handler and the finally block
JobExcept(s) ==
    /\ jpc[s] = "except"
    /\ \E ok \in BOOLEAN :
         LET failed == SessionResult(JobOf(s), "FAILED",
                           ExcReason("EXCEPTION", jexc[s]), 0, 0, <<>>)
         IN  IF ok
             THEN /\ envio' = [envio EXCEPT ![s] = RowOf(failed)]
                  /\ jwrites' = [jwrites EXCEPT ![s] = @ + 1]
                  /\ jres' = [jres EXCEPT ![s] = failed]
             ELSE /\ jres' = [jres EXCEPT ![s] =
                       SessionResult(JobOf(s), "FAILED",
                           ExcReason("EXCEPTION_NO_UPDATE", jexc[s]),
                           0, 0, <<>>)]
                  /\ UNCHANGED <<envio, jwrites>>
    /\ jconn' = [jconn EXCEPT ![s] = "closed"]
    /\ jpc' = [jpc EXCEPT ![s] = "done"]
    /\ completed' = Append(completed, s)
    /\ UNCHANGED <<otherVars, sessionVars, cfg_chunk_size, cfg_max_workers, cfg_threshold,
                   run_pc, jobs, start, jexc, ncollected, chunk_results,
                   all_session_results, pauses, summaries, response>>

\* drellia_envio, lines 278-281: as_completed yields the next finished
\* future; fut.result() returns the job's result or raises its exception
Collect ==
    /\ run_pc = "collect"
    /\ ncollected < Len(completed)
    /\ LET s == completed[ncollected + 1] IN
         IF jpc[s] = "raised"
         THEN /\ run_pc' = "aborting"
              /\ UNCHANGED <<chunk_results, all_session_results>>
         ELSE /\ chunk_results' = Append(chunk_results, jres[s])
              /\ all_session_results' = Append(all_session_results, jres[s])
              /\ run_pc' = run_pc
    /\ ncollected' = ncollected + 1
    /\ UNCHANGED <<otherVars, sessionVars, cfg_chunk_size, cfg_max_workers, cfg_threshold,
                   envio, jobs, start, jpc, jconn, jres, jexc, jwrites,
                   completed, pauses, summaries, response>>

\* drellia_envio, lines 283-299 and the loop header: the chunk's timeout
\* ratio, the cooldown pause, and the step to the next chunk or the summary
EndChunk ==
    /\ run_pc = "collect"
    /\ ncollected = Len(Chunk)
    /\ pauses' = Append(pauses,
                    MustPause(chunk_results, Len(Chunk), cfg_threshold))
    /\ start' = start + cfg_chunk_size
    /\ run_pc' = IF start' < Len(jobs) THEN "submit" ELSE "summary"
    /\ UNCHANGED <<otherVars, sessionVars, cfg_chunk_size, cfg_max_workers, cfg_threshold,
                   envio, jobs, jpc, jconn, jres, jexc, jwrites, completed,
                   ncollected, chunk_results, all_session_results, summaries,
                   response>>

\* drellia_envio, lines 275-279 and 348-351: the exception of fut.result()
\* leaves the with block, whose exit waits for the jobs already submitted,
\* and reaches the outer handler, which answers ERROR
Abort ==
    /\ run_pc = "aborting"
    /\ Queued = {}
    /\ Running = {}
    /\ run_pc' = "error"
    /\ response' = ErrorResponse
    /\ UNCHANGED <<otherVars, sessionVars, cfg_chunk_size, cfg_max_workers, cfg_threshold,
                   envio, jobs, start, jpc, jconn, jres, jexc, jwrites,
                   completed, ncollected, chunk_results, all_session_results,
                   pauses, summaries>>

\* drellia_envio, lines 301-346: the batch summary is inserted and the run
\* answers OK; an exception of the insert reaches the outer handler
Summarize ==
    /\ run_pc = "summary"
    /\ \E ok \in BOOLEAN :
         IF ok
         THEN /\ summaries' = Append(summaries, Summary(all_session_results))
              /\ response' = OkResponse(all_session_results)
              /\ run_pc' = "ok"
         ELSE /\ summaries' = summaries
              /\ response' = ErrorResponse
              /\ run_pc' = "error"
    /\ UNCHANGED <<otherVars, sessionVars, cfg_chunk_size, cfg_max_workers, cfg_threshold,
                   envio, jobs, start, jpc, jconn, jres, jexc, jwrites,
                   completed, ncollected, chunk_results, all_session_results,
                   pauses>>

NextRun ==
    \/ Fetch
    \/ SubmitChunk
    \/ \E s \in Sessions : JobStart(s)
    \/ \E s \in Sessions : JobBody(s)
    \/ \E s \in Sessions : JobWrite(s)
    \/ \E s \in Sessions : JobExcept(s)
    \/ Collect
    \/ EndChunk
    \/ Abort
    \/ Summarize

SpecRun == InitRun /\ [][NextRun]_vars

\* drellia_envio is invoked again once the previous invocation has answered:
\* the run starts from the table as the previous runs left it
Reinvoke ==
    /\ run_pc \in {"ok", "error", "no_data"}
    /\ Len(past) + 1 < MaxRuns
    /\ past' = Append(past,
                   [dispatched |-> {s \in Sessions : jpc[s] # "idle"},
                    written |-> {s \in Sessions : jwrites[s] > 0}])
    /\ run_pc' = "fetch"
    /\ jobs' = <<>>
    /\ start' = 0
    /\ jpc' = [s \in Sessions |-> "idle"]
    /\ jconn' = [s \in Sessions |-> "none"]
    /\ jres' = [s \in Sessions |-> NoResult]
    /\ jexc' = [s \in Sessions |-> None]
    /\ jwrites' = [s \in Sessions |-> 0]
    /\ completed' = <<>>
    /\ ncollected' = 0
    /\ chunk_results' = <<>>
    /\ all_session_results' = <<>>
    /\ pauses' = <<>>
    /\ summaries' = <<>>
    /\ response' = NoResponse
    /\ UNCHANGED <<sessionVars, localVars, keyVars, encVars, aggVars,
                   cfg_chunk_size, cfg_max_workers, cfg_threshold, envio>>

NextRuns ==
    \/ NextRun
    \/ Reinvoke

SpecRuns == InitRun /\ [][NextRuns]_vars

\* Every call of the run (a store call, a remote call) returns or raises,
\* and the worker threads and the main thread keep being scheduled: a step
\* that stays possible is eventually taken.
SpecRunFair == SpecRun /\ WF_vars(NextRun)

(***************************************************************************)
(* process_job of two sessions of one chunk, in two runs: the sessions of  *)
(* a run share the customers table                                         *)
(***************************************************************************)
LocalRuns == {"A", "B"}
LocalSessions == {"x", "y"}
Phones == {"p1", "p2"}

\* What the outcome of a session's process_job depends on: the phone of its
\* job, the answer to its customer creation and the outcome of its
\* dispatch, each used only if process_job gets that far.
LocalInputs == [phone : Phones, create : {"ok", "fail"},
                send : {"SENT", "FAILED"}]

LocalJob(s) == [session_id |-> s, lote_id |-> "L1"]

\* a lookup that finds a customer as soon as the table holds any row
lookup_customer_by_identification_AnyRow(customers, phone) == customers # {}

\* lookup_customer_by_identification and _get_local_customer_by_phone: the
\* customers row of the job's phone, if there is one
lookup_customer_by_identification(customers, phone) == phone \in customers

\* the result of the dispatch of a session whose customer is resolved
LocalSendResult(s, send) ==
    IF send = "SENT"
    THEN SessionResult(LocalJob(s), "SENT", None, 201, 200, <<>>)
    ELSE SessionResult(LocalJob(s), "FAILED", "CONV_CREATE_FAILED",
                       500, 0, <<>>)

LocalRunEnded(r) == \A s \in LocalSessions : lc_pc[r][s] = "done"

\* The runs are two executions of drellia_envio on the same initial
\* customers table; run B is explored once run A has ended.
LocalEnabled(r) == r = "B" => LocalRunEnded("A")

InitLocal ==
    /\ SessionIdle
    /\ RunIdle
    /\ HistIdle
    /\ KeyIdle
    /\ EncIdle
    /\ AggIdle
    /\ lc_in \in [LocalRuns -> [LocalSessions -> LocalInputs]]
    /\ lc_in["A"]["y"] = lc_in["B"]["y"]
    /\ \E c \in SUBSET Phones : lc_customers = [r \in LocalRuns |-> c]
    /\ lc_pc = [r \in LocalRuns |-> [s \in LocalSessions |-> "lookup"]]
    /\ lc_res = [r \in LocalRuns |-> [s \in LocalSessions |-> NoResult]]

\* ensure_customer_for_job, lines 48-53, and ensure_customer, lines 478-489:
\* a customer already in the table is used as it is
LocalLookup(r, s) ==
    /\ LocalEnabled(r)
    /\ lc_pc[r][s] = "lookup"
    /\ lc_pc' = [lc_pc EXCEPT ![r][s] =
                   IF lookup_customer_by_identification(lc_customers[r],
                                                        lc_in[r][s].phone)
                   THEN "send" ELSE "create"]
    /\ UNCHANGED <<sessionVars, runVars, histVars, keyVars, encVars, aggVars, lc_in, lc_customers,
                   lc_res>>

\* ensure_customer, lines 491-547, and process_job, lines 128-142: the
\* customer is created remotely and stored in the table, or the session
\* fails with CUSTOMER_RESOLUTION_FAILED
LocalCreate(r, s) ==
    /\ LocalEnabled(r)
    /\ lc_pc[r][s] = "create"
    /\ IF lc_in[r][s].create = "ok"
       THEN /\ lc_customers' = [lc_customers EXCEPT
                                   ![r] = @ \cup {lc_in[r][s].phone}]
            /\ lc_pc' = [lc_pc EXCEPT ![r][s] = "send"]
            /\ lc_res' = lc_res
       ELSE /\ lc_res' = [lc_res EXCEPT ![r][s] =
                 SessionResult(LocalJob(s), "FAILED",
                               "CUSTOMER_RESOLUTION_FAILED", 0, 0, <<>>)]
            /\ lc_pc' = [lc_pc EXCEPT ![r][s] = "done"]
            /\ lc_customers' = lc_customers
    /\ UNCHANGED <<sessionVars, runVars, histVars, keyVars, encVars, aggVars, lc_in>>

\* process_job, lines 144-178: normalization, dispatch and status write
LocalSend(r, s) ==
    /\ LocalEnabled(r)
    /\ lc_pc[r][s] = "send"
    /\ lc_res' = [lc_res EXCEPT ![r][s] = LocalSendResult(s, lc_in[r][s].send)]
    /\ lc_pc' = [lc_pc EXCEPT ![r][s] = "done"]
    /\ UNCHANGED <<sessionVars, runVars, histVars, keyVars, encVars, aggVars, lc_in,
                   lc_customers>>

NextLocal ==
    \/ \E r \in LocalRuns, s \in LocalSessions : LocalLookup(r, s)
    \/ \E r \in LocalRuns, s \in LocalSessions : LocalCreate(r, s)
    \/ \E r \in LocalRuns, s \in LocalSessions : LocalSend(r, s)

SpecLocal == InitLocal /\ [][NextLocal]_vars

(***************************************************************************)
(* drellia_client.py: the process-wide API key cache                       *)
(***************************************************************************)
KeyCallers == 1..MaxCallers

\* values of the environment override and of the secret
EnvKeys == {None, "   ", " key-env "}
SecretTexts == {" key-1 ", "key-2", "   "}

InitKey ==
    /\ SessionIdle
    /\ RunIdle
    /\ HistIdle
    /\ LocalIdle
    /\ EncIdle
    /\ AggIdle
    /\ ak_env \in EnvKeys
    /\ ak_secret \in SecretTexts
    /\ ak_rotated = FALSE
    /\ ak_cache = None
    /\ ak_pc = [w \in KeyCallers |-> "call"]
    /\ ak_key = [w \in KeyCallers |-> None]
    /\ ak_writes = 0

\* get_drellia_api_key, lines 36-37: a cache that holds a key answers
KeyCheck(w) ==
    /\ ak_pc[w] = "call"
    /\ IF Truthy(ak_cache)
       THEN /\ ak_key' = [ak_key EXCEPT ![w] = ak_cache]
            /\ ak_pc' = [ak_pc EXCEPT ![w] = "done"]
       ELSE /\ ak_pc' = [ak_pc EXCEPT ![w] = "env"]
            /\ ak_key' = ak_key
    /\ UNCHANGED <<sessionVars, runVars, histVars, localVars, encVars, aggVars, ak_env, ak_secret,
                   ak_rotated, ak_cache, ak_writes>>

\* KeyEnv caching the override as configured and returning it stripped
KeyEnv_CacheRaw(w) ==
    /\ ak_pc[w] = "env"
    /\ IF Truthy(ak_env) /\ Truthy(Strip(ak_env))
       THEN /\ ak_cache' = ak_env
            /\ ak_writes' = ak_writes + 1
            /\ ak_key' = [ak_key EXCEPT ![w] = Strip(ak_env)]
            /\ ak_pc' = [ak_pc EXCEPT ![w] = "done"]
       ELSE /\ ak_pc' = [ak_pc EXCEPT ![w] = "secret"]
            /\ UNCHANGED <<ak_cache, ak_writes, ak_key>>
    /\ UNCHANGED <<sessionVars, runVars, histVars, localVars, encVars, aggVars, ak_env, ak_secret,
                   ak_rotated>>

\* get_drellia_api_key, lines 39-41: the environment override, if it is not
\* blank, is cached and the cache is returned
KeyEnv(w) ==
    /\ ak_pc[w] = "env"
    /\ IF Truthy(ak_env) /\ Truthy(Strip(ak_env))
       THEN /\ ak_cache' = Strip(ak_env)
            /\ ak_writes' = ak_writes + 1
            /\ ak_key' = [ak_key EXCEPT ![w] = ak_cache']
            /\ ak_pc' = [ak_pc EXCEPT ![w] = "done"]
       ELSE /\ ak_pc' = [ak_pc EXCEPT ![w] = "secret"]
            /\ UNCHANGED <<ak_cache, ak_writes, ak_key>>
    /\ UNCHANGED <<sessionVars, runVars, histVars, localVars, encVars, aggVars, ak_env, ak_secret,
                   ak_rotated>>

\* get_drellia_api_key, line 44: the secret is read, which may fail
KeySecret(w) ==
    /\ ak_pc[w] = "secret"
    /\ \E ok \in BOOLEAN :
         IF ok
         THEN /\ ak_key' = [ak_key EXCEPT ![w] = Strip(ak_secret)]
              /\ ak_pc' = [ak_pc EXCEPT ![w] = "store"]
         ELSE /\ ak_pc' = [ak_pc EXCEPT ![w] = "raised"]
              /\ ak_key' = ak_key
    /\ UNCHANGED <<sessionVars, runVars, histVars, localVars, encVars, aggVars, ak_env, ak_secret,
                   ak_rotated, ak_cache, ak_writes>>

\* get_drellia_api_key, lines 45-46: the key read is cached and returned
KeyStore(w) ==
    /\ ak_pc[w] = "store"
    /\ ak_cache' = ak_key[w]
    /\ ak_writes' = ak_writes + 1
    /\ ak_pc' = [ak_pc EXCEPT ![w] = "done"]
    /\ UNCHANGED <<sessionVars, runVars, histVars, localVars, encVars, aggVars, ak_env, ak_secret,
                   ak_rotated, ak_key>>

\* the secret's latest version is replaced while the process runs
RotateSecret ==
    /\ ~ak_rotated
    /\ \E text \in SecretTexts \ {ak_secret} : ak_secret' = text
    /\ ak_rotated' = TRUE
    /\ UNCHANGED <<sessionVars, runVars, histVars, localVars, encVars, aggVars, ak_env, ak_cache, ak_pc,
                   ak_key, ak_writes>>

NextKey ==
    \/ \E w \in KeyCallers : KeyCheck(w)
    \/ \E w \in KeyCallers : KeyEnv(w)
    \/ \E w \in KeyCallers : KeySecret(w)
    \/ \E w \in KeyCallers : KeyStore(w)
    \/ RotateSecret

SpecKey == InitKey /\ [][NextKey]_vars

(***************************************************************************)
(* normalize_messages and the batch built from its output, on raw lists    *)
(* in any order                                                            *)
(***************************************************************************)
\* what the i-th raw record of a list may hold: a text or a placeholder, a
\* parseable time or none, and its origin
RawChoices == [text : BOOLEAN,
               time : {[fmt |-> "calendar", ms |-> 1000],
                       [fmt |-> "calendar", ms |-> 2000], NoTime},
               origin : RawLetters]

RawOf(i, c) ==
    [message_time |-> c.time,
     us_origen |-> c.origin,
     mensaje |-> IF c.text THEN "m" \o ToString(i) ELSE "__image__",
     operador_email |-> IF c.origin = "operator" THEN "ana@x.com" ELSE None,
     agent_email |-> None]

UnorderedRawLists ==
    UNION { { [i \in 1..n |-> RawOf(i, c[i])] : c \in [1..n -> RawChoices] }
            : n \in 0..MaxRaw }

InitNorm ==
    /\ RunIdle
    /\ OtherIdle
    /\ provider_id = "prov-1"
    /\ bot_employee_id \in {None, "emp-bot"}
    /\ agentes \in {EmptyTable, AnaTable}
    /\ job \in [session_id : {"s1"}, lote_id : {"L1"},
                mensajes : UnorderedRawLists,
                agent_drellia_id : {None, "emp-fallback"}]
    /\ clock = 9000
    /\ pc = "raw"
    /\ conn = "none"
    /\ customer_id = "cust-1"
    /\ normalized = <<>>
    /\ participants = <<>>
    /\ main_key = None
    /\ conv_id = None
    /\ msgs_body = <<>>
    /\ resp_conv = 0
    /\ resp_msgs = 0
    /\ call = "none"
    /\ attempt = 0
    /\ posts = 0
    /\ timeouts = 0
    /\ srv_errors = 0
    /\ last_outcome = NoOutcome
    /\ conv_calls = 0
    /\ msgs_calls = 0
    /\ conv_payload = NoPayload
    /\ session_result = NoResult
    /\ job_result = NoResult
    /\ exc = None
    /\ envio_row = PendingRow
    /\ status_writes = 0

\* normalize_messages applied to the job's raw list
NormalizeRaw ==
    /\ pc = "raw"
    /\ normalized' = normalize_messages(job.mensajes, clock)
    /\ pc' = "normalized"
    /\ UNCHANGED <<otherVars, runVars, envVars, httpVars, sendVars, conn,
                   customer_id, session_result, job_result, exc, envio_row,
                   status_writes>>

\* _build_participants_from_messages and _build_messages_body_for_session
\* applied to the normalizer's output
BuildBody ==
    /\ pc = "normalized"
    /\ participants' = build_participants_from_messages(agentes,
                           bot_employee_id, job, normalized)
    /\ msgs_body' = build_messages_body_for_session(normalized, customer_id,
                                                    participants')
    /\ pc' = "built"
    /\ UNCHANGED <<otherVars, runVars, envVars, httpVars, jobVars, main_key,
                   conv_id, resp_conv, resp_msgs, conv_payload>>

NextNorm ==
    \/ NormalizeRaw
    \/ BuildBody

SpecNorm == InitNorm /\ [][NextNorm]_vars

(***************************************************************************)
(* normalize_messages on raw records of every kind its filters tell apart  *)
(***************************************************************************)
Raw(origin, mensaje, time, operador_email, agent_email) ==
    [message_time |-> time, us_origen |-> origin, mensaje |-> mensaje,
     operador_email |-> operador_email, agent_email |-> agent_email]

Calendar(ms) == [fmt |-> "calendar", ms |-> ms]
GarbageTime == [fmt |-> "garbage", ms |-> 0]
ListTime == [fmt |-> "list", ms |-> 1000]

\* what the i-th raw record of a list may be: contents that are texts, blank,
\* missing or placeholders; origins of every class, with and without case
\* and padding; times in every format, parseable or not; agents with their
\* email in either field, padded, blank or missing
RichRecords(i) ==
    LET text == "m" \o ToString(i) IN
    { Raw("user", text, Calendar(1000), None, None),
      Raw(" USER ", text, GarbageTime, None, None),
      Raw("user", "   ", Calendar(1000), None, None),
      Raw("user", None, Calendar(1000), None, None),
      Raw("bot", "__audio__", Calendar(2000), None, None),
      Raw("other", text, Calendar(1000), None, None),
      Raw(None, text, Calendar(1000), None, None),
      Raw("", text, Calendar(2000), None, None),
      Raw("Bot", text, NoTime, None, None),
      Raw("operator", text, [fmt |-> "tuple", ms |-> 2000], "ana@x.com", None),
      Raw("Operator ", text, ListTime, " Ana@X.com ", None),
      Raw("operator", text, [fmt |-> "datetime", ms |-> 2000], None, "ana@x.com"),
      Raw("operator", text, Calendar(1000), "   ", None),
      Raw("operator", text, Calendar(1000), None, None) }

RichRawLists ==
    UNION { { r \in [1..n -> UNION {RichRecords(i) : i \in 1..n}] :
                \A i \in 1..n : r[i] \in RichRecords(i) }
            : n \in 0..MaxRich }

InitRich ==
    /\ RunIdle
    /\ OtherIdle
    /\ provider_id = "prov-1"
    /\ bot_employee_id \in {None, "emp-bot"}
    /\ agentes \in {EmptyTable, AnaTable}
    /\ job \in [session_id : {"s1"}, lote_id : {"L1"},
                mensajes : RichRawLists,
                agent_drellia_id : {None, "emp-fallback"}]
    /\ clock = 9000
    /\ pc = "raw"
    /\ conn = "none"
    /\ customer_id = "cust-1"
    /\ normalized = <<>>
    /\ participants = <<>>
    /\ main_key = None
    /\ conv_id = None
    /\ msgs_body = <<>>
    /\ resp_conv = 0
    /\ resp_msgs = 0
    /\ call = "none"
    /\ attempt = 0
    /\ posts = 0
    /\ timeouts = 0
    /\ srv_errors = 0
    /\ last_outcome = NoOutcome
    /\ conv_calls = 0
    /\ msgs_calls = 0
    /\ conv_payload = NoPayload
    /\ session_result = NoResult
    /\ job_result = NoResult
    /\ exc = None
    /\ envio_row = PendingRow
    /\ status_writes = 0

SpecRich == InitRich /\ [][NextNorm]_vars

(***************************************************************************)
(* main.py: aggregate_session_result                                       *)
(***************************************************************************)
\* a segment outcome; an HTTP code is <<code>>, or <<>> when the key is
\* missing or None
Segment(status, reason, http_code_conv, http_code_msgs) ==
    [status |-> status, reason |-> reason, http_code_conv |-> http_code_conv,
     http_code_msgs |-> http_code_msgs]

SegmentKinds ==
    { Segment("SENT", None, <<200>>, <<201>>),
      Segment("SENT", None, <<201>>, <<200>>),
      Segment("FAILED", "CONV_CREATE_FAILED", <<500>>, <<0>>),
      Segment("FAILED", "CONV_CREATE_FAILED", <<400>>, <<>>),
      Segment("FAILED", "MESSAGES_FAILED", <<200>>, <<500>>),
      Segment("FAILED", None, <<>>, <<>>),
      Segment("FAILED", "", <<0>>, <<0>>),
      Segment("SKIPPED", "NO_VALID_MESSAGES", <<200>>, <<0>>),
      Segment("SKIPPED", None, <<>>, <<>>) }

SegmentLists == UNION { [1..n -> SegmentKinds] : n \in 0..MaxSegs }

AggJob == [session_id |-> "s1", lote_id |-> "L1"]

\* r.get(key) or 0
CodeOr0(code) == IF code = <<>> THEN 0 ELSE code[1]

\* MaxCode taking the code of the last segment
MaxCode_Last(codes) == IF codes = <<>> THEN 0 ELSE codes[Len(codes)]

\* max(codes) if codes else 0
MaxCode(codes) ==
    IF codes = <<>> THEN 0
    ELSE CHOOSE c \in {codes[i] : i \in 1..Len(codes)} :
             \A i \in 1..Len(codes) : codes[i] <= c

\* aggregate_status with FAILED as soon as a segment failed
aggregate_status_FailedWins(segment_results) ==
    LET has_sent == \E i \in 1..Len(segment_results) :
                        segment_results[i].status = "SENT"
        has_failed == \E i \in 1..Len(segment_results) :
                          segment_results[i].status = "FAILED"
    IN  CASE has_failed -> "FAILED"
          [] has_sent -> "SENT"
          [] OTHER -> "SKIPPED"

\* aggregate_session_result, lines 44-65: the status
aggregate_status(segment_results) ==
    LET has_sent == \E i \in 1..Len(segment_results) :
                        segment_results[i].status = "SENT"
        has_failed == \E i \in 1..Len(segment_results) :
                          segment_results[i].status = "FAILED"
    IN  CASE segment_results = <<>> -> "SKIPPED"
          [] has_sent /\ ~has_failed -> "SENT"
          [] has_sent /\ has_failed -> "PARTIAL"
          [] has_failed -> "FAILED"
          [] OTHER -> "SKIPPED"

\* the set of the reasons of the FAILED segments that carry one
failed_reasons(segment_results) ==
    {segment_results[i].reason : i \in
        {j \in 1..Len(segment_results) :
            /\ segment_results[j].status = "FAILED"
            /\ Truthy(segment_results[j].reason)}}

\* list(a set): its elements once each, in an order the set decides
ListsOf(S) ==
    {f \in [1..Cardinality(S) -> S] :
        \A i \in 1..Cardinality(S), j \in 1..Cardinality(S) :
            f[i] = f[j] => i = j}

\* "; ".join(reasons)
RECURSIVE Join(_)
Join(reasons) ==
    IF Len(reasons) = 1 THEN reasons[1]
    ELSE reasons[1] \o "; " \o Join(Tail(reasons))

\* aggregate_session_result, reasons being list(the set of failed reasons)
aggregate_session_result(the_job, segment_results, reasons) ==
    IF segment_results = <<>>
    THEN SessionResult(the_job, "SKIPPED", "NO_SEGMENTS", 0, 0, <<>>)
    ELSE SessionResult(the_job, aggregate_status(segment_results),
             IF reasons # <<>> THEN Join(reasons) ELSE None,
             MaxCode([i \in 1..Len(segment_results) |->
                         CodeOr0(segment_results[i].http_code_conv)]),
             MaxCode([i \in 1..Len(segment_results) |->
                         CodeOr0(segment_results[i].http_code_msgs)]),
             segment_results)

InitAgg ==
    /\ SessionIdle
    /\ RunIdle
    /\ HistIdle
    /\ LocalIdle
    /\ KeyIdle
    /\ EncIdle
    /\ agg_in \in SegmentLists
    /\ agg_out = <<>>

\* one call of aggregate_session_result
Aggregate ==
    /\ agg_out = <<>>
    /\ \E reasons \in ListsOf(failed_reasons(agg_in)) :
         agg_out' = <<aggregate_session_result(AggJob, agg_in, reasons)>>
    /\ UNCHANGED <<sessionVars, runVars, histVars, localVars, keyVars, encVars, agg_in>>

NextAgg == Aggregate

SpecAgg == InitAgg /\ [][NextAgg]_vars

(***************************************************************************)
(* messages_normalizer.py: load_raw_messages on the encodings of column    *)
(* mensajes                                                                *)
(***************************************************************************)
\* A value of column mensajes: a native list, a single dict, or a string.
\* A string is kept as the layers of its syntax from the outside in (a JSON
\* text, a JSON string literal around another text, the dump of a Python
\* list) and the records its innermost text spells out.
Encoded(kind, layers, items) == [kind |-> kind, layers |-> layers, items |-> items]

\* the messages a value of the column stands for: per message its origin
\* and its time, <<>> for a message without time; the i-th has the i-th text
SemChoices == [origin : {"user", "operator"}, time : {<<1000>>, <<2000>>, <<>>}]
SemLists == UNION { [1..n -> SemChoices] : n \in 0..MaxSem }

\* the record of the i-th message, its time written in format fmt
RecordIn(i, m, fmt) ==
    Raw(m.origin, "m" \o ToString(i),
        IF m.time = <<>> THEN NoTime ELSE [fmt |-> fmt, ms |-> m.time[1]],
        IF m.origin = "operator" THEN "ana@x.com" ELSE None, None)

RecordsIn(sem, fmt) == [i \in 1..Len(sem) |-> RecordIn(i, sem[i], fmt)]

\* the encodings of a list of messages: JSON holds times as calendar
\* strings, the dump of a Python list holds them as datetime objects
Encode(e, sem) ==
    CASE e = "list"      -> Encoded("list", <<>>, RecordsIn(sem, "calendar"))
      [] e = "record"    -> Encoded("dict", <<>>, RecordsIn(sem, "calendar"))
      [] e = "json"      -> Encoded("str", <<"json">>, RecordsIn(sem, "calendar"))
      [] e = "json_json" -> Encoded("str", <<"json", "json">>,
                                    RecordsIn(sem, "calendar"))
      [] e = "dump"      -> Encoded("str", <<"dump">>, RecordsIn(sem, "datetime"))
      [] e = "json_dump" -> Encoded("str", <<"json", "dump">>,
                                    RecordsIn(sem, "datetime"))

\* a single record encodes a list of one message only
EncodingsOf(sem) ==
    {"list", "json", "json_json", "dump", "json_dump"}
        \cup (IF Len(sem) = 1 THEN {"record"} ELSE {})

NotParsed == [ok |-> FALSE, items |-> <<>>]

\* _try_parse_python_dump_string on the text with these layers and records:
\* None unless the text holds datetime.datetime, 'us_origen': and
\* 'mensaje':, which a JSON text (double-quoted keys, no datetime objects)
\* does not; then one dict per block, with the time rebuilt from the
\* numbers of datetime.datetime(...), the single-quoted origin, text and
\* operador_email, and no agent_email
try_parse_python_dump_string(layers, items) ==
    IF /\ layers # <<>>
       /\ layers[Len(layers)] = "dump"
       /\ \E i \in 1..Len(items) : items[i].message_time.fmt = "datetime"
    THEN [ok |-> TRUE,
          items |-> [i \in 1..Len(items) |->
                        Raw(items[i].us_origen, items[i].mensaje,
                            IF items[i].message_time.fmt = "datetime"
                            THEN items[i].message_time ELSE NoTime,
                            items[i].operador_email, None)]]
    ELSE NotParsed

\* load_raw_messages, line 252: the whole string as one textual message
WrappedText == Raw("unknown", "text", NoTime, None, None)

\* load_raw_messages wrapping a text it cannot parse as a message of the
\* customer
load_raw_messages_WrapAsUser(mensajes_raw) ==
    CASE mensajes_raw.kind = "list" -> mensajes_raw.items
      [] mensajes_raw.kind = "dict" -> mensajes_raw.items
      [] OTHER ->
           LET layers == mensajes_raw.layers
               items == mensajes_raw.items
               inner_parsed == IF layers[1] = "json" /\ Len(layers) > 1
                               THEN try_parse_python_dump_string(Tail(layers),
                                                                 items)
                               ELSE NotParsed
               python_parsed == try_parse_python_dump_string(layers, items)
           IN  IF layers = <<"json">> THEN items
               ELSE IF inner_parsed.ok THEN inner_parsed.items
               ELSE IF python_parsed.ok THEN python_parsed.items
               ELSE << Raw("user", "text", NoTime, None, None) >>

\* load_raw_messages
load_raw_messages(mensajes_raw) ==
    CASE mensajes_raw.kind = "list" -> mensajes_raw.items
      [] mensajes_raw.kind = "dict" -> mensajes_raw.items
      [] OTHER ->
           LET layers == mensajes_raw.layers
               items == mensajes_raw.items
               \* json.loads gave a str: only the dump parser is tried on it
               inner_parsed == IF layers[1] = "json" /\ Len(layers) > 1
                               THEN try_parse_python_dump_string(Tail(layers),
                                                                 items)
                               ELSE NotParsed
               python_parsed == try_parse_python_dump_string(layers, items)
           IN  IF layers = <<"json">> THEN items
               ELSE IF inner_parsed.ok THEN inner_parsed.items
               ELSE IF python_parsed.ok THEN python_parsed.items
               ELSE <<WrappedText>>

\* normalize_messages on a value of the column in any encoding
normalize_encoded(mensajes_raw, now) ==
    normalize_messages(load_raw_messages(mensajes_raw), now)

InitEnc ==
    /\ SessionIdle
    /\ RunIdle
    /\ HistIdle
    /\ LocalIdle
    /\ KeyIdle
    /\ AggIdle
    /\ \E sem \in SemLists :
         /\ enc_in = [e \in EncodingsOf(sem) |-> Encode(e, sem)]
         /\ enc_out = [e \in EncodingsOf(sem) |-> <<>>]
    /\ enc_done = {}

\* one call of normalize_messages, on the value in encoding e
NormalizeEncoded(e) ==
    /\ e \in DOMAIN enc_in
    /\ e \notin enc_done
    /\ enc_out' = [enc_out EXCEPT ![e] = normalize_encoded(enc_in[e], clock)]
    /\ enc_done' = enc_done \cup {e}
    /\ UNCHANGED <<sessionVars, runVars, histVars, localVars, keyVars, aggVars, enc_in>>

NextEnc ==
    \E e \in {"list", "record", "json", "json_json", "dump", "json_dump"} :
        NormalizeEncoded(e)

SpecEnc == InitEnc /\ [][NextEnc]_vars

(***************************************************************************)
(* process_job on a session whose column mensajes holds an encoded value   *)
(***************************************************************************)
\* a text that is neither JSON nor the dump of a Python list
TextBlob == Encoded("str", <<"text">>, <<>>)

\* the values of column mensajes: the text, and lists of messages as a
\* native list, as JSON and as a dump
ColumnValues ==
    {TextBlob} \cup {Encode(e, sem) : e \in {"list", "json", "dump"},
                                      sem \in SemLists}

InitColumn ==
    /\ RunIdle
    /\ OtherIdle
    /\ provider_id \in {None, "prov-1"}
    /\ bot_employee_id = "emp-bot"
    /\ agentes \in {EmptyTable, AnaTable}
    /\ job \in [session_id : {"s1"}, lote_id : {"L1"},
                mensajes : ColumnValues,
                agent_drellia_id : {None, "emp-fallback"}]
    /\ clock = 9000
    /\ pc = "start"
    /\ conn = "none"
    /\ customer_id = None
    /\ normalized = <<>>
    /\ participants = <<>>
    /\ main_key = None
    /\ conv_id = None
    /\ msgs_body = <<>>
    /\ resp_conv = 0
    /\ resp_msgs = 0
    /\ call = "none"
    /\ attempt = 0
    /\ posts = 0
    /\ timeouts = 0
    /\ srv_errors = 0
    /\ last_outcome = NoOutcome
    /\ conv_calls = 0
    /\ msgs_calls = 0
    /\ conv_payload = NoPayload
    /\ session_result = NoResult
    /\ job_result = NoResult
    /\ exc = None
    /\ envio_row = PendingRow
    /\ status_writes = 0

\* process_job, lines 144-161, on the value of the column: normalize_messages
\* loads it with load_raw_messages
NormalizeColumn ==
    /\ pc = "normalize"
    /\ normalized' = normalize_encoded(job.mensajes, clock)
    /\ IF normalized' = <<>>
       THEN /\ session_result' =
                 SessionResult(job, "SKIPPED", "NO_VALID_MESSAGES", 0, 0, <<>>)
            /\ pc' = "write"
       ELSE /\ session_result' = session_result
            /\ pc' = "send"
    /\ UNCHANGED <<otherVars, runVars, envVars, httpVars, sendVars, conn, customer_id, job_result,
                   exc, envio_row, status_writes>>

NextColumn ==
    \/ GetConn
    \/ EnsureCustomer
    \/ NormalizeColumn
    \/ SendSession
    \/ ConvPost
    \/ MsgsCall
    \/ MsgsPost
    \/ WriteStatus
    \/ HandleException

SpecColumn == InitColumn /\ [][NextColumn]_vars

(***************************************************************************)
(* Properties of one session (specification Spec)                          *)
(***************************************************************************)
OkCodes == {200, 201}

\* a POST of the current _post_with_retry call is about to be made
PostPending == pc \in {"conv_post", "msgs_post"}

\* the dispatcher stage the session has reached
Stage ==
    IF session_result.status = "SENT" THEN 4
    ELSE IF resp_msgs \in OkCodes THEN 3
    ELSE IF Truthy(conv_id) THEN 2
    ELSE IF main_key # None THEN 1
    ELSE 0

C1_StageOrder ==
    /\ conv_calls \in {0, 1}
    /\ msgs_calls \in {0, 1}
    /\ conv_calls = 1 => participants # <<>> /\ main_key # None
    /\ (msgs_calls = 1 \/ pc = "msgs_call") =>
          conv_calls = 1 /\ resp_conv \in OkCodes /\ Truthy(conv_id)
    /\ session_result.status = "SENT" =>
          /\ msgs_calls = 1
          /\ call = "msgs"
          /\ resp_msgs \in OkCodes
          /\ last_outcome = [kind |-> "response", code |-> resp_msgs]
    /\ job_result.status = "SENT" => session_result.status = "SENT"

\* C1: a session moves only forward through INIT, PARTICIPANTS_RESOLVED,
\* CONVERSATION_CREATED, MESSAGES_SENT, SENT: the stage never decreases, the
\* message-send call is issued only after the conversation-create call
\* returned 200 or 201 with a conversation id, and SENT is the result only
\* after the message-send call returned 200 or 201.
C1_ForwardOnly == [](C1_StageOrder) /\ [][Stage' >= Stage]_vars

C1_Witness == pc = "done" /\ job_result.status = "SENT" /\ Stage = 4

\* C2: a _post_with_retry call with max_retries=2 makes at most 3 POSTs; a
\* further POST is pending only after a timeout or a 5xx response; a response
\* outside the 5xx range ends the call at once and is the response the
\* caller sees.
C2_BoundedRetry ==
    /\ posts <= 3
    /\ attempt <= 2
    /\ (PostPending /\ posts > 0) =>
          \/ last_outcome.kind = "timeout"
          \/ /\ last_outcome.kind = "response"
             /\ last_outcome.code >= 500 /\ last_outcome.code < 600
    /\ (last_outcome.kind = "response"
        /\ ~(last_outcome.code >= 500 /\ last_outcome.code < 600)) =>
          /\ ~PostPending
          /\ call = "conv" => resp_conv = last_outcome.code
          /\ call = "msgs" => resp_msgs = last_outcome.code

\* a 200 that follows one 5xx response, returned on the second POST
C2_Witness ==
    /\ call = "conv" /\ posts = 2 /\ srv_errors = 1
    /\ last_outcome = [kind |-> "response", code |-> 200]
    /\ resp_conv = 200

\* C3: when all three attempts of a remote call time out the dispatcher's
\* result is FAILED with a timeout-prefixed reason (EXCEPTION_TIMEOUT_CONV and
\* both HTTP codes 0 for the conversation call, EXCEPTION_TIMEOUT_MSGS and
\* http_code_msgs 0 for the message call) and no further remote call is made.
C3_TimeoutExhausted ==
    /\ (call = "conv" /\ timeouts = 3) =>
          /\ session_result.status = "FAILED"
          /\ session_result.reason =
                "EXCEPTION_TIMEOUT_CONV" \o ": " \o TIMEOUT_TEXT
          /\ session_result.http_code_conv = 0
          /\ session_result.http_code_msgs = 0
          /\ posts = 3 /\ msgs_calls = 0
          /\ pc \in {"write", "except", "done"}
    /\ (call = "msgs" /\ timeouts = 3) =>
          /\ session_result.status = "FAILED"
          /\ session_result.reason =
                "EXCEPTION_TIMEOUT_MSGS" \o ": " \o TIMEOUT_TEXT
          /\ session_result.http_code_msgs = 0
          /\ posts = 3 /\ conv_calls = 1 /\ msgs_calls = 1
          /\ pc \in {"write", "except", "done"}

C3_Witness ==
    /\ pc = "done" /\ call = "msgs" /\ timeouts = 3
    /\ job_result.status = "FAILED" /\ job_result = session_result

\* what distinguishes two session outcomes
OutcomeOf(r) == <<r.status, r.reason, r.http_code_conv, r.http_code_msgs>>

\* every attempt of the last call ended in a timeout or a 5xx response
Exhausted(c) == call = c /\ posts = 3 /\ timeouts + srv_errors = 3

\* the last call ended at once in a 4xx response
Immediate4xx(c) ==
    /\ call = c /\ posts = 1 /\ last_outcome.kind = "response"
    /\ last_outcome.code >= 400 /\ last_outcome.code < 500

Immediate4xxConvOutcomes ==
    { <<"FAILED", "CONV_CREATE_FAILED", c, 0>> : c \in 400..499 }
Immediate4xxMsgsOutcomes ==
    { <<"FAILED", "MESSAGES_FAILED", cc, c>> : cc \in OkCodes, c \in 400..499 }

\* C4: the session outcome after exhausted retries (every attempt of the call
\* ended in a timeout or a 5xx response) is never one of the outcomes an
\* immediate 4xx failure of the same call produces.
C4_ExhaustedDistinct ==
    /\ Immediate4xx("conv") =>
          OutcomeOf(session_result) \in Immediate4xxConvOutcomes
    /\ Immediate4xx("msgs") =>
          OutcomeOf(session_result) \in Immediate4xxMsgsOutcomes
    /\ Exhausted("conv") =>
          /\ session_result.status = "FAILED"
          /\ OutcomeOf(session_result) \notin Immediate4xxConvOutcomes
    /\ Exhausted("msgs") =>
          /\ session_result.status = "FAILED"
          /\ OutcomeOf(session_result) \notin Immediate4xxMsgsOutcomes

\* retries exhausted by 5xx responses and timeouts of the conversation call
C4_Witness ==
    /\ pc = "done" /\ Exhausted("conv") /\ srv_errors = 2 /\ timeouts = 1
    /\ last_outcome.kind = "response"
    /\ job_result.reason = "CONV_CREATE_FAILED"

\* C5: when the conversation-create call returns 500 on the first attempt and
\* on both retries the result is FAILED/CONV_CREATE_FAILED and the
\* message-send call is never invoked.
C5_Conv500 ==
    (call = "conv" /\ srv_errors = 3) =>
        /\ session_result.status = "FAILED"
        /\ session_result.reason = "CONV_CREATE_FAILED"
        /\ session_result.http_code_conv = 500
        /\ session_result.http_code_msgs = 0
        /\ msgs_calls = 0
        /\ pc \in {"write", "except", "done"}

C5_Witness ==
    /\ pc = "done" /\ call = "conv" /\ srv_errors = 3
    /\ job_result.reason = "CONV_CREATE_FAILED" /\ msgs_calls = 0

SkipReasons ==
    {"NO_VALID_MESSAGES", "NO_EMPLOYEES_IN_SESSION", "NO_RESOLVED_EMPLOYEE_IDS"}

\* C6: whenever a session's result is SKIPPED, no conversation-create call
\* and no message-send call was made for that session.
C6_SkippedNoRemote ==
    \A r \in {session_result, job_result} :
        r.status = "SKIPPED" =>
            /\ r.reason \in SkipReasons
            /\ conv_calls = 0 /\ msgs_calls = 0 /\ posts = 0

C6_Witness ==
    /\ pc = "done" /\ job_result.status = "SKIPPED"
    /\ job_result.reason = "NO_RESOLVED_EMPLOYEE_IDS"
    /\ envio_row.estado = "SKIPPED"

AllCustomer ==
    /\ normalized # <<>>
    /\ \A i \in 1..Len(normalized) : normalized[i].actor_type = "CUSTOMER"

HasEmployee ==
    \E i \in 1..Len(normalized) : normalized[i].actor_type \in {"BOT", "AGENT"}

\* no BOT or AGENT message of the session has a sender that resolves: no bot
\* id configured, email unknown to table agentes, no fallback on the job
NothingResolves ==
    /\ ~Truthy(job.agent_drellia_id)
    /\ \A i \in 1..Len(normalized) :
         /\ normalized[i].actor_type = "BOT" => ~Truthy(bot_employee_id)
         /\ normalized[i].actor_type = "AGENT" =>
               normalized[i].actor_email \notin DOMAIN agentes

\* C8: a session with at least one BOT or AGENT participant of which none
\* resolves to an employee id gets, with a provider id configured, the
\* dispatcher result SKIPPED/NO_RESOLVED_EMPLOYEE_IDS, and no
\* conversation-create call is made.
C8_NothingResolved ==
    (HasEmployee /\ NothingResolves) =>
        /\ conv_calls = 0 /\ msgs_calls = 0 /\ posts = 0
        /\ (Truthy(provider_id) /\ session_result.status # "NONE") =>
              /\ session_result.status = "SKIPPED"
              /\ session_result.reason = "NO_RESOLVED_EMPLOYEE_IDS"
              /\ session_result.http_code_conv = 0
              /\ session_result.http_code_msgs = 0

\* a BOT and an AGENT of unknown email, neither resolved
C8_Witness ==
    /\ HasEmployee /\ NothingResolves /\ pc = "done"
    /\ \E i \in 1..Len(normalized) : normalized[i].actor_type = "AGENT"
    /\ \E i \in 1..Len(normalized) : normalized[i].actor_type = "BOT"
    /\ job_result.reason = "NO_RESOLVED_EMPLOYEE_IDS"

CountOf(actor_type) ==
    Cardinality({i \in 1..Len(normalized) : normalized[i].actor_type = actor_type})

\* the employee id the sender of a normalized message stands for
ExpectedSender(m) ==
    CASE m.actor_type = "CUSTOMER" -> customer_id
      [] m.actor_type = "BOT" ->
           IF Truthy(bot_employee_id) THEN bot_employee_id
           ELSE job.agent_drellia_id
      [] OTHER ->
           IF m.actor_email \in DOMAIN agentes THEN agentes[m.actor_email]
           ELSE job.agent_drellia_id

\* CUSTOMER, BOT and AGENT messages, every participant resolving, more
\* messages of the agent than of the bot
ScenarioA ==
    /\ CountOf("CUSTOMER") > 0
    /\ CountOf("BOT") > 0
    /\ CountOf("AGENT") > CountOf("BOT")
    /\ \A i \in 1..Len(normalized) : Truthy(ExpectedSender(normalized[i]))

BothCallsSucceeded ==
    resp_conv \in OkCodes /\ Truthy(conv_id) /\ resp_msgs \in OkCodes

\* C9: in a session with CUSTOMER, BOT and AGENT messages where every
\* participant resolves and the agent has more messages than the bot, the one
\* conversation-create call carries the agent's resolved id as employeeId,
\* the one message-send call carries every normalized message in order, and
\* when both calls succeed the result is SENT.
C9_ScenarioA ==
    ScenarioA =>
        /\ conv_calls <= 1 /\ msgs_calls <= 1
        /\ conv_calls = 1 =>
              /\ \E i \in 1..Len(normalized) :
                    /\ normalized[i].actor_type = "AGENT"
                    /\ conv_payload.employeeId = ExpectedSender(normalized[i])
              /\ conv_payload.customerId = customer_id
        /\ msgs_calls = 1 =>
              /\ Len(msgs_body) = Len(normalized)
              /\ \A i \in 1..Len(normalized) :
                    /\ msgs_body[i].content = normalized[i].content
                    /\ msgs_body[i].timestamp = normalized[i].ts_ms
                    /\ msgs_body[i].senderId = ExpectedSender(normalized[i])
                    /\ msgs_body[i].senderRole =
                          IF normalized[i].actor_type = "CUSTOMER"
                          THEN "customer" ELSE "employee"
              /\ \A i \in 1..(Len(msgs_body) - 1) :
                    msgs_body[i].timestamp <= msgs_body[i + 1].timestamp
        /\ BothCallsSucceeded =>
              /\ session_result.status = "SENT"
              /\ conv_calls = 1 /\ msgs_calls = 1

C9_Witness ==
    /\ ScenarioA /\ BothCallsSucceeded /\ pc = "done"
    /\ job_result.status = "SENT"
    /\ Len(msgs_body) = 4
    /\ bot_employee_id = "emp-bot"
    /\ conv_payload.employeeId = "emp-ana"
    /\ normalized[1].actor_type = "BOT"


\* the dispatcher returned the result of a failed precondition
PreconditionResult(status, reason) ==
    /\ pc' = "write"
    /\ session_result' = SessionResult(job, status, reason, 0, 0, <<>>)
    /\ conv_calls' = 0 /\ msgs_calls' = 0 /\ posts' = 0

\* C26: the dispatcher checks its preconditions in a fixed order. Without a
\* provider id the result is FAILED with the reason of the missing
\* configuration, whatever the messages and the agent directory are: no
\* participant is resolved, no remote call is made, nothing is retried. With
\* a provider id, a session without BOT or AGENT message is
\* SKIPPED/NO_EMPLOYEES_IN_SESSION; with such messages of which none
\* resolves it is SKIPPED/NO_RESOLVED_EMPLOYEE_IDS; otherwise the
\* conversation-create call is made.
C26_PreconditionOrder ==
    /\ [](~Truthy(provider_id) =>
             /\ participants = <<>>
             /\ conv_calls = 0 /\ msgs_calls = 0 /\ posts = 0)
    /\ [][pc = "send" =>
             IF ~Truthy(provider_id)
             THEN /\ PreconditionResult("FAILED", MISSING_PROVIDER)
                  /\ UNCHANGED <<participants, exc>>
             ELSE IF pc' = "except" THEN HasEmployee /\ conv_calls' = 0
             ELSE IF ~HasEmployee
             THEN PreconditionResult("SKIPPED", "NO_EMPLOYEES_IN_SESSION")
             ELSE IF NothingResolves
             THEN PreconditionResult("SKIPPED", "NO_RESOLVED_EMPLOYEE_IDS")
             ELSE pc' = "conv_post" /\ conv_calls' = 1]_vars

\* no provider id, an agent whose directory lookup would run, and the
\* session recorded as FAILED without any call
C26_Witness ==
    /\ ~Truthy(provider_id)
    /\ HasEmployee
    /\ pc = "done"
    /\ job_result.status = "FAILED"
    /\ job_result.reason = MISSING_PROVIDER
    /\ envio_row.estado = "FAILED"
    /\ participants = <<>>
    /\ posts = 0

\* C27: once the conversation-create call has ended with a response, a
\* status other than 200 and 201 gives FAILED/CONV_CREATE_FAILED and a 200 or
\* 201 response without a conversation id gives FAILED/CONV_CREATE_NO_ID, in
\* both cases with the received status as http_code_conv and without any
\* message-send call; the call succeeds only on 200 or 201 with an id.
C27_ConvCreateOutcome ==
    resp_conv # 0 =>
        IF resp_conv \notin OkCodes
        THEN /\ session_result =
                  SessionResult(job, "FAILED", "CONV_CREATE_FAILED",
                                resp_conv, 0, <<>>)
             /\ msgs_calls = 0
        ELSE IF ~Truthy(conv_id)
        THEN /\ session_result =
                  SessionResult(job, "FAILED", "CONV_CREATE_NO_ID",
                                resp_conv, 0, <<>>)
             /\ msgs_calls = 0
        ELSE TRUE

\* C28: when both remote calls succeed the session result is SENT, carries
\* the two received codes (each 200 or 201) and no reason, and holds exactly
\* one segment record with the conversation id, the key of the main
\* participant (whose employee id the conversation was created with) and
\* the length of the batch that was sent; no other result is SENT.
C28_SentResult ==
    /\ BothCallsSucceeded => session_result.status = "SENT"
    /\ \A r \in {session_result, job_result} :
         r.status = "SENT" =>
             /\ BothCallsSucceeded
             /\ r.http_code_conv = resp_conv
             /\ r.http_code_msgs = resp_msgs
             /\ r.reason = None
             /\ Len(r.segments) = 1
             /\ r.segments[1].conv_id = conv_id
             /\ r.segments[1].main_employee_key = main_key
             /\ \E i \in 1..Len(participants) :
                    /\ participants[i].key = main_key
                    /\ participants[i].employee_id = conv_payload.employeeId
                    /\ participants[i].employee_id = r.segments[1].main_employee_id
             /\ msgs_body # <<>>
             /\ r.segments[1].n_messages = Len(msgs_body)

C28_Witness ==
    /\ pc = "done"
    /\ job_result.status = "SENT"
    /\ job_result.http_code_conv = 201
    /\ job_result.http_code_msgs = 200
    /\ job_result.segments[1].main_employee_key = "BOT"
    /\ job_result.segments[1].n_messages = 4

\* the normalized messages the batch is made of: those of the customer and
\* those of the employees whose sender resolves
KeptMessages ==
    SelectSeq(normalized,
              LAMBDA m : m.actor_type = "CUSTOMER" \/ Truthy(ExpectedSender(m)))

\* C29: the batch of the message-send call holds every CUSTOMER message, as
\* sender role customer with the customer id, and exactly those BOT and
\* AGENT messages whose participant has a resolved employee id, as sender
\* role employee with that id; the messages of an unresolved participant
\* are left out and the session goes on.
C29_UnresolvedDropped ==
    msgs_calls > 0 =>
        /\ Len(msgs_body) = Len(KeptMessages)
        /\ \A k \in 1..Len(msgs_body) :
               /\ msgs_body[k].content = KeptMessages[k].content
               /\ msgs_body[k].senderId = ExpectedSender(KeptMessages[k])
               /\ msgs_body[k].senderRole =
                      IF KeptMessages[k].actor_type = "CUSTOMER"
                      THEN "customer" ELSE "employee"

\* a session that ends SENT with the messages of its bot left out
C29_Witness ==
    /\ pc = "done"
    /\ job_result.status = "SENT"
    /\ CountOf("BOT") = 1
    /\ CountOf("CUSTOMER") = 1
    /\ CountOf("AGENT") = 2
    /\ ~Truthy(bot_employee_id) /\ ~Truthy(job.agent_drellia_id)
    /\ Len(msgs_body) = 3

(***************************************************************************)
(* Properties of a processing run (specification SpecRun)                  *)
(***************************************************************************)

\* session s has a result among those the run collected
HasResult(s) ==
    \E k \in 1..Len(all_session_results) :
        all_session_results[k].session_id = JobOf(s).session_id

\* C10: a run never aborts because one session misbehaves: process_job
\* returns a result instead of raising, whatever fails (the acquisition of
\* the session's connection and the status write included), so a run that
\* has ended has processed every fetched job and collected its result.
C10_RunNeverAborts ==
    (run_pc \in {"ok", "error"} /\ jobs # <<>>) =>
        /\ \A s \in Sessions : jpc[s] # "raised"
        /\ \A i \in 1..Len(jobs) : jpc[jobs[i]] = "done" /\ HasResult(jobs[i])


\* process_job has returned the minimal result of its inner handler
IsNoUpdate(r) ==
    \E text \in {TIMEOUT_TEXT, CONNECTION_TEXT, DB_TEXT} :
        r.reason = ExcReason("EXCEPTION_NO_UPDATE", text)

\* the status record of session s carries the fields of result r
RowCarries(s, r) ==
    /\ envio[s].estado = r.status
    /\ envio[s].http_code_conv = r.http_code_conv
    /\ envio[s].http_code_msgs = r.http_code_msgs
    /\ envio[s].error_message = r.reason

\* C11 as stated: the status record of every job whose process_job has
\* returned was written exactly once in the run, with the fields of the
\* returned result.
C11_WrittenExactlyOnce ==
    \A s \in Sessions :
        jpc[s] = "done" => jwrites[s] = 1 /\ RowCarries(s, jres[s])

\* C11: the status record of a job is written at most once in a run; when
\* process_job has returned, it was written exactly once, with the status,
\* HTTP codes and reason of the returned result, unless the returned reason
\* is EXCEPTION_NO_UPDATE (both the write of the try block and the write of
\* the exception handler failed), and then it was not written and the
\* record is still PENDING.
C11_WrittenAtMostOnce ==
    \A s \in DOMAIN envio :
        /\ jwrites[s] \in {0, 1}
        /\ jwrites[s] = 0 => envio[s] = PendingRow
        /\ jpc[s] = "done" =>
             /\ jwrites[s] = 1 <=> ~IsNoUpdate(jres[s])
             /\ jwrites[s] = 1 => RowCarries(s, jres[s])

C11_Witness ==
    \E s \in DOMAIN envio, t \in DOMAIN envio :
        /\ jpc[s] = "done" /\ jwrites[s] = 1
        /\ jres[s].reason = ExcReason("EXCEPTION", DB_TEXT)
        /\ RowCarries(s, jres[s])
        /\ jpc[t] = "done" /\ jwrites[t] = 0 /\ IsNoUpdate(jres[t])


\* the chunk the i-th fetched job belongs to, counted from 0
ChunkOf(i) == (i - 1) \div cfg_chunk_size

\* C12: chunks are processed strictly sequentially and with bounded
\* parallelism: a job of a later chunk is started only when every job of
\* the earlier chunks has returned and its result has been collected; the
\* sessions being processed all belong to the current chunk and are at most
\* min(MAX_WORKERS, size of the current chunk).
C12_SequentialBounded ==
    /\ Cardinality(Running) <= cfg_max_workers
    /\ Cardinality(Running) <= Len(Chunk)
    /\ \A s \in Running : InChunk(s)
    /\ \A i \in 1..Len(jobs), j \in 1..Len(jobs) :
         (ChunkOf(i) < ChunkOf(j) /\ jpc[jobs[j]] # "idle") =>
             jpc[jobs[i]] = "done" /\ HasResult(jobs[i])

C12_Witness ==
    /\ cfg_max_workers = 1
    /\ cfg_chunk_size = 2
    /\ start = 2
    /\ Len(jobs) = 3
    /\ Running = {jobs[3]}
    /\ jpc[jobs[1]] = "done" /\ jpc[jobs[2]] = "done"


\* the results of the k-th chunk (from 1) among those collected
ResultsOfChunk(k) ==
    SubSeq(all_session_results, (k - 1) * cfg_chunk_size + 1,
           IF k * cfg_chunk_size < Len(jobs)
           THEN k * cfg_chunk_size ELSE Len(jobs))

\* connection and timeout failures among results
TimeoutFailures(results) ==
    Cardinality({i \in 1..Len(results) :
        /\ results[i].status = "FAILED"
        /\ \E prefix \in {"EXCEPTION", "EXCEPTION_NO_UPDATE",
                          "EXCEPTION_TIMEOUT_CONV", "EXCEPTION_TIMEOUT_MSGS"} :
             results[i].reason \in {ExcReason(prefix, TIMEOUT_TEXT),
                                    ExcReason(prefix, CONNECTION_TEXT)}})

\* C13: after each chunk the scheduler decides once about a cooldown pause:
\* there is one decision per completed chunk, never one per job; the pause
\* is inserted when the chunk's failures by connection error or timeout,
\* divided by the chunk's size, meet or exceed TIMEOUT_ERROR_THRESHOLD, and
\* is not inserted when they are below it.
C13_CooldownPerChunk ==
    /\ start = Len(pauses) * cfg_chunk_size
    /\ \A k \in 1..Len(pauses) :
         LET results == ResultsOfChunk(k) IN
         /\ Len(results) > 0
         /\ pauses[k] <=>
              TimeoutFailures(results) * cfg_threshold[2]
                  >= cfg_threshold[1] * Len(results)

C13_Witness ==
    /\ cfg_chunk_size = 2
    /\ cfg_threshold = <<1, 2>>
    /\ pauses = <<TRUE, FALSE>>
    /\ TimeoutFailures(ResultsOfChunk(1)) = 1
    /\ run_pc = "summary"


\* results with the given status
WithStatus(results, status) ==
    {k \in 1..Len(results) : results[k].status = status}

\* the run has ended (with an answer OK or ERROR) after fetching jobs
RunEndedWithJobs == run_pc \in {"ok", "error"} /\ jobs # <<>>

Started(s) == jpc[s] \notin {"idle", "queued"}

\* process_job of session s has returned a terminal result
Terminal(s) ==
    jpc[s] = "done" /\ jres[s].status \in {"SENT", "FAILED", "SKIPPED"}

\* C15: once started, a session runs to full completion: as every remote
\* call and store call returns or fails, every started session eventually
\* reaches a terminal result (SENT, FAILED or SKIPPED), and a run that has
\* fetched jobs eventually produces its batch summary.
C15_RunsToCompletion ==
    /\ \A s \in Sessions : Started(s) ~> Terminal(s)
    /\ (jobs # <<>>) ~> (Len(summaries) = 1)


\* sessions whose connection is open
OpenConns == {s \in Sessions : jconn[s] = "open"}

\* C16: the connection process_job acquires is released on every exit
\* path: when process_job has returned, through the try block or through
\* the exception handler, its connection is closed; a connection is open
\* only while its session is being processed, so the open per-session
\* connections never outnumber the sessions in progress.
C16_ConnReleased ==
    /\ \A s \in Sessions :
         /\ jpc[s] = "done" => jconn[s] = "closed"
         /\ jpc[s] \in {"idle", "queued", "raised"} => jconn[s] = "none"
         /\ jconn[s] = "open" => s \in Running
    /\ Cardinality(OpenConns) <= Cardinality(Running)

C16_Witness ==
    \E s \in Sessions, t \in Sessions :
        /\ jpc[s] = "done" /\ IsNoUpdate(jres[s]) /\ jconn[s] = "closed"
        /\ jpc[t] = "except" /\ jconn[t] = "open"


(***************************************************************************)
(* Properties of two runs of a chunk (specification SpecLocal)             *)
(***************************************************************************)
LocalEnded == \A r \in LocalRuns : LocalRunEnded(r)

Returned == {w \in KeyCallers : ak_pc[w] = "done"}

\* C18 as stated: the cache is written at most once.
C18_WrittenAtMostOnce == ak_writes <= 1

\* what C18 says of a state: while the secret has not been changed, the
\* cache is empty or holds the key every caller has obtained, so every
\* write stored that key, and there is at most one write per caller
KeyCacheInv ==
    /\ ak_writes <= MaxCallers
    /\ ~ak_rotated =>
         /\ \A w \in Returned, v \in Returned : ak_key[w] = ak_key[v]
         /\ \A w \in Returned : ak_cache = ak_key[w]
         /\ \A w \in Returned :
              ak_key[w] = IF Truthy(ak_env) /\ ak_env # "   "
                          THEN "key-env"
                          ELSE IF ak_secret = " key-1 " THEN "key-1"
                          ELSE IF ak_secret = "key-2" THEN "key-2"
                          ELSE ""
         /\ ak_writes = 0 <=> ak_cache = None

\* C18: under any interleaving of concurrent get_drellia_api_key calls the
\* cache may be written by each caller that found it empty, but, as long as
\* the secret is not changed meanwhile, every write stores the same key:
\* the cache never changes after it first holds a key and every caller
\* obtains that key.
C18_CacheStable ==
    /\ [](KeyCacheInv)
    /\ [][(Truthy(ak_cache) /\ ~ak_rotated') => ak_cache' = ak_cache]_vars

C18_Witness ==
    /\ ~ak_rotated
    /\ ak_writes = MaxCallers
    /\ Returned = KeyCallers
    /\ ak_cache = "key-1"


(***************************************************************************)
(* Properties of the normalizer and the batch (specification SpecNorm)     *)
(***************************************************************************)
\* position in the raw list of the record a normalized message came from
\* (the texts of a raw list are pairwise different)
RawIndex(content) ==
    CHOOSE i \in 1..Len(job.mensajes) : job.mensajes[i].mensaje = content

\* position in the normalizer's output of the message a batch entry carries
NormIndex(content) ==
    CHOOSE i \in 1..Len(normalized) : normalized[i].content = content

\* C19: the batch built for a session is a subsequence of the normalizer's
\* output in the same relative order: each entry carries the content and
\* the timestamp of one normalized message, entries follow each other as
\* their messages do, and so the batch's timestamps never decrease.
C19_BatchInOrder ==
    pc = "built" =>
        /\ \A k \in 1..Len(msgs_body) :
             /\ \E i \in 1..Len(normalized) :
                    normalized[i].content = msgs_body[k].content
             /\ msgs_body[k].timestamp =
                    normalized[NormIndex(msgs_body[k].content)].ts_ms
        /\ \A k \in 1..(Len(msgs_body) - 1) :
             /\ NormIndex(msgs_body[k].content)
                    < NormIndex(msgs_body[k + 1].content)
             /\ msgs_body[k].timestamp <= msgs_body[k + 1].timestamp

C19_Witness ==
    /\ pc = "built"
    /\ Len(normalized) = 3
    /\ Len(msgs_body) = 2
    /\ job.mensajes[1].message_time.ms = 2000
    /\ job.mensajes[2].message_time.ms = 1000
    /\ msgs_body[1].content = "m2"
    /\ msgs_body[2].content = "m1"
    /\ msgs_body[1].timestamp < msgs_body[2].timestamp

\* C20: the output of normalize_messages is sorted ascending by timestamp,
\* and messages with equal timestamps keep the relative order they have in
\* the input.
C20_SortedStable ==
    pc \in {"normalized", "built"} =>
        \A k \in 1..Len(normalized), l \in 1..Len(normalized) :
            k < l =>
                /\ normalized[k].ts_ms <= normalized[l].ts_ms
                /\ normalized[k].ts_ms = normalized[l].ts_ms =>
                       RawIndex(normalized[k].content)
                           < RawIndex(normalized[l].content)

C20_Witness ==
    /\ pc = "normalized"
    /\ Len(normalized) = 3
    /\ job.mensajes[1].message_time.ms = 2000
    /\ job.mensajes[2].message_time.ms = 1000
    /\ job.mensajes[3].message_time.ms = 1000
    /\ normalized[1].content = "m2"
    /\ normalized[2].content = "m3"
    /\ normalized[3].content = "m1"

(***************************************************************************)
(* Properties of the normalizer's filters (specification SpecRich)         *)
(***************************************************************************)
KnownOrigins == {"user", "cliente", "customer", "bot", "flow", "ivr", "system",
                 "operator", "agente", "agent", "supervisor"}

\* the raw record holds a text and an origin of a known class
Qualifies(msg) ==
    /\ msg.mensaje # None
    /\ Strip(msg.mensaje) # ""
    /\ Strip(msg.mensaje) \notin Placeholders
    /\ msg.us_origen \notin {None, ""}
    /\ StripLower(msg.us_origen) \in KnownOrigins

Parseable(ts) == ts.fmt \in {"calendar", "tuple", "datetime"}

\* C21: every message of the normalizer's output has an actor type among
\* CUSTOMER, BOT and AGENT and a content that is neither empty nor a
\* placeholder, and comes from a raw record with such a content and origin:
\* records with a blank, missing or placeholder content or an unclassified
\* origin never appear in it.
C21_OutputFiltered ==
    pc \in {"normalized", "built"} =>
        \A k \in 1..Len(normalized) :
            /\ normalized[k].actor_type \in {"CUSTOMER", "BOT", "AGENT"}
            /\ normalized[k].content # ""
            /\ normalized[k].content \notin Placeholders
            /\ \E i \in 1..Len(job.mensajes) :
                   /\ Qualifies(job.mensajes[i])
                   /\ Strip(job.mensajes[i].mensaje) = normalized[k].content

C21_Witness ==
    /\ pc = "normalized"
    /\ Len(job.mensajes) = 2
    /\ job.mensajes[1].us_origen = "other"
    /\ job.mensajes[2].mensaje = "__audio__"
    /\ normalized = <<>>

\* C23: every raw record with a text and an origin of a known class appears
\* in the normalizer's output whatever its time field holds, with the time
\* it denotes when that can be parsed and the processing time otherwise; the
\* output holds nothing else.
C23_NeverDroppedForTime ==
    pc \in {"normalized", "built"} =>
        /\ \A i \in 1..Len(job.mensajes) :
               Qualifies(job.mensajes[i]) =>
                   \E k \in 1..Len(normalized) :
                       /\ normalized[k].content = Strip(job.mensajes[i].mensaje)
                       /\ normalized[k].ts_ms =
                              IF Parseable(job.mensajes[i].message_time)
                              THEN job.mensajes[i].message_time.ms
                              ELSE clock
        /\ Len(normalized) =
               Cardinality({i \in 1..Len(job.mensajes) :
                               Qualifies(job.mensajes[i])})

C23_Witness ==
    /\ pc = "normalized"
    /\ Len(job.mensajes) = 2
    /\ job.mensajes[1].message_time = GarbageTime
    /\ job.mensajes[2].message_time = ListTime
    /\ Len(normalized) = 2
    /\ normalized[1].ts_ms = clock
    /\ normalized[2].ts_ms = clock

(***************************************************************************)
(* Properties of the encodings (specification SpecEnc)                     *)
(***************************************************************************)
\* the sequence of (actor_type, content, timestamp_ms) of an output
Triples(output) ==
    [k \in 1..Len(output) |->
        <<output[k].actor_type, output[k].content, output[k].ts_ms>>]

\* C22: normalize_messages returns the same ordered sequence of (actor_type,
\* content, timestamp_ms) for every encoding of the same messages: native
\* list, single record, JSON text, string wrapping a JSON text or a dump,
\* and dump.
C22_SameForEveryEncoding ==
    \A e1 \in enc_done, e2 \in enc_done :
        Triples(enc_out[e1]) = Triples(enc_out[e2])

(***************************************************************************)
(* Properties of aggregate_session_result (specification SpecAgg)          *)
(***************************************************************************)
NumWithStatus(segs, status) ==
    Cardinality({i \in 1..Len(segs) : segs[i].status = status})

\* the rearrangements of a list of segments
Rearranged(segs) ==
    {[i \in 1..Len(segs) |-> segs[f[i]]] : f \in ListsOf(1..Len(segs))}

\* C24: the status aggregate_session_result gives a list of segment outcomes
\* is SKIPPED with reason NO_SEGMENTS for the empty list, SENT with some
\* SENT and no FAILED segment, PARTIAL with some SENT and some FAILED,
\* FAILED with some FAILED and no SENT, SKIPPED otherwise; every
\* rearrangement of the list gets the same status.
C24_StatusTable ==
    agg_out # <<>> =>
        LET sent == NumWithStatus(agg_in, "SENT")
            failed == NumWithStatus(agg_in, "FAILED")
            status == agg_out[1].status
        IN  /\ Len(agg_in) = 0 =>
                   status = "SKIPPED" /\ agg_out[1].reason = "NO_SEGMENTS"
            /\ sent > 0 /\ failed = 0 => status = "SENT"
            /\ sent > 0 /\ failed > 0 => status = "PARTIAL"
            /\ sent = 0 /\ failed > 0 => status = "FAILED"
            /\ sent = 0 /\ failed = 0 => status = "SKIPPED"
            /\ \A segs \in Rearranged(agg_in) : aggregate_status(segs) = status

C24_Witness ==
    /\ agg_out # <<>>
    /\ Len(agg_in) = 3
    /\ agg_in[1].status = "SKIPPED"
    /\ agg_in[2].status = "FAILED"
    /\ agg_in[3].status = "SENT"
    /\ agg_out[1].status = "PARTIAL"

\* the codes of a list of segments under key conv or msgs
CodesOf(segs, key) ==
    {CodeOr0(IF key = "conv" THEN segs[i].http_code_conv
             ELSE segs[i].http_code_msgs) : i \in 1..Len(segs)}

IsMaxOf(code, codes) ==
    IF codes = {} THEN code = 0
    ELSE code \in codes /\ \A c \in codes : c <= code

\* the reason is the distinct non-empty reasons of the FAILED segments, each
\* once, joined by "; ", or None without any
ReasonFromFailed ==
    IF failed_reasons(agg_in) = {} THEN agg_out[1].reason = None
    ELSE \E reasons \in ListsOf(failed_reasons(agg_in)) :
             agg_out[1].reason = Join(reasons)

\* C25 as stated: the codes are the maxima of the segments' codes, 0 without
\* any, and the reason is the joined distinct non-empty reasons of the
\* FAILED segments, or none when no FAILED segment carries a reason.
C25_CodesAndReasonAsStated ==
    agg_out # <<>> =>
        /\ IsMaxOf(agg_out[1].http_code_conv, CodesOf(agg_in, "conv"))
        /\ IsMaxOf(agg_out[1].http_code_msgs, CodesOf(agg_in, "msgs"))
        /\ ReasonFromFailed

\* C25: the codes are the maxima of the segments' codes, 0 without any; for
\* a non-empty list the reason is the joined distinct non-empty reasons of
\* the FAILED segments, or none when no FAILED segment carries a reason; for
\* the empty list the reason is NO_SEGMENTS.
C25_CodesAndReason ==
    agg_out # <<>> =>
        /\ IsMaxOf(agg_out[1].http_code_conv, CodesOf(agg_in, "conv"))
        /\ IsMaxOf(agg_out[1].http_code_msgs, CodesOf(agg_in, "msgs"))
        /\ IF agg_in = <<>> THEN agg_out[1].reason = "NO_SEGMENTS"
           ELSE ReasonFromFailed

C25_Witness ==
    /\ agg_out # <<>>
    /\ Len(agg_in) = 3
    /\ agg_in[1].reason = "MESSAGES_FAILED"
    /\ agg_in[2].reason = "CONV_CREATE_FAILED"
    /\ agg_in[3].reason = "CONV_CREATE_FAILED"
    /\ agg_in[2].http_code_conv = <<500>>
    /\ agg_in[3].http_code_conv = <<400>>
    /\ agg_out[1].reason = "CONV_CREATE_FAILED; MESSAGES_FAILED"
    /\ agg_out[1].http_code_conv = 500
    /\ agg_out[1].http_code_msgs = 500

(***************************************************************************)
(* Properties of the participants (specification SpecRich)                 *)
(***************************************************************************)
\* the fallback of the chain: the job's agent reference, None without one
Fallback == IF Truthy(job.agent_drellia_id) THEN job.agent_drellia_id ELSE None

\* the employee id the chain gives a participant
ChainResult(p) ==
    CASE p.actor_type = "BOT" ->
           IF Truthy(bot_employee_id) THEN bot_employee_id ELSE Fallback
      [] p.actor_type = "AGENT" ->
           IF p.email # None /\ p.email \in DOMAIN agentes
           THEN agentes[p.email] ELSE Fallback

\* C30: a BOT participant resolves to the configured bot employee id, else
\* to the job's fallback agent reference, else to nothing; an AGENT
\* participant resolves to the entry of table agentes for its email, else
\* (no entry, or no email) to the fallback, else to nothing. A participant
\* that resolves to nothing stays in the participants without employee id,
\* and the batch holds no message of it.
C30_FallbackChain ==
    pc = "built" =>
        /\ \A i \in 1..Len(participants) :
               /\ participants[i].actor_type \in {"BOT", "AGENT"}
               /\ participants[i].employee_id = ChainResult(participants[i])
        /\ \A k \in 1..Len(normalized) :
               normalized[k].actor_type \in {"BOT", "AGENT"} =>
                   \E i \in 1..Len(participants) :
                       /\ participants[i].key = ParticipantKey(normalized[k])
                       /\ participants[i].employee_id = None =>
                              \A b \in 1..Len(msgs_body) :
                                  msgs_body[b].content # normalized[k].content

\* no fallback on the job: a bot without configured id does not resolve, the
\* agent of the directory, its email padded and capitalised, does
C30_Witness ==
    /\ pc = "built"
    /\ Len(participants) = 2
    /\ participants[1].actor_type = "BOT"
    /\ participants[1].employee_id = None
    /\ participants[2].key = "AGENT|ana@x.com"
    /\ participants[2].employee_id = "emp-ana"
    /\ job.mensajes[2].operador_email = " Ana@X.com "
    /\ Len(msgs_body) = 1


\* the normalized messages a participant can stand for
StaffMessages ==
    {k \in 1..Len(normalized) : normalized[k].actor_type \in {"BOT", "AGENT"}}

\* the group of a BOT or AGENT message: BOT, or the trimmed lower-cased
\* email of the agent, blank and missing emails alike
GroupOf(m) ==
    IF m.actor_type = "BOT" THEN "BOT"
    ELSE "AGENT|" \o StripLower(IF Truthy(m.actor_email) THEN m.actor_email
                                ELSE "")

MessagesOfGroup(key) ==
    {k \in StaffMessages : GroupOf(normalized[k]) = key}

RECURSIVE SumCounts(_)
SumCounts(ps) == IF ps = <<>> THEN 0 ELSE Head(ps).count + SumCounts(Tail(ps))

\* C31: the participants are the groups of the BOT and AGENT messages: one
\* participant per group and none else, all bots under key BOT, the agents
\* under their trimmed lower-cased email with every agent without email
\* under one key of its own; no participant stands for a CUSTOMER; each
\* count is at least 1 and is the number of messages of the group, and the
\* counts add up to the number of BOT and AGENT messages.
C31_GroupedByKey ==
    pc = "built" =>
        /\ \A i, j \in 1..Len(participants) :
               participants[i].key = participants[j].key => i = j
        /\ \A i \in 1..Len(participants) :
               /\ participants[i].actor_type \in {"BOT", "AGENT"}
               /\ participants[i].actor_type = "BOT" <=> participants[i].key = "BOT"
               /\ participants[i].count >= 1
               /\ participants[i].count =
                      Cardinality(MessagesOfGroup(participants[i].key))
        /\ \A k \in StaffMessages :
               \E i \in 1..Len(participants) :
                   participants[i].key = GroupOf(normalized[k])
        /\ SumCounts(participants) = Cardinality(StaffMessages)

\* two messages of one agent, the email once plain and once padded and
\* capitalised, form one participant of count 2
C31_Witness ==
    /\ pc = "built"
    /\ Len(participants) = 1
    /\ participants[1].key = "AGENT|ana@x.com"
    /\ participants[1].count = 2
    /\ \E a, b \in 1..2 :
           /\ job.mensajes[a].operador_email = "ana@x.com"
           /\ job.mensajes[b].operador_email = " Ana@X.com "


(***************************************************************************)
(* Properties of the dispatcher's participants (specification Spec)        *)
(***************************************************************************)
\* position in the normalized list of the first message of a group
FirstOfGroup(key) ==
    CHOOSE k \in MessagesOfGroup(key) : \A l \in MessagesOfGroup(key) : k <= l

Resolved(p) == Truthy(p.employee_id)

\* C32: the main participant, whose employee id the conversation-create
\* call carries, is a resolved participant whose count is the highest among
\* the resolved ones; a participant without employee id is never the main
\* one, however many messages it has; of several resolved participants with
\* the highest count, the main one is the one whose first message comes
\* first in the normalized list.
C32_MainParticipant ==
    conv_calls = 1 =>
        \E i \in 1..Len(participants) :
            /\ participants[i].key = main_key
            /\ Resolved(participants[i])
            /\ conv_payload.employeeId = participants[i].employee_id
            /\ \A j \in 1..Len(participants) :
                   Resolved(participants[j]) /\ j # i =>
                       /\ participants[j].count <= participants[i].count
                       /\ participants[j].count = participants[i].count =>
                              FirstOfGroup(participants[i].key)
                                  < FirstOfGroup(participants[j].key)

\* the bot, with one message, is the main participant of a session whose
\* agent has two and does not resolve
C32_Witness ==
    /\ conv_calls = 1
    /\ main_key = "BOT"
    /\ CountOf("BOT") = 1
    /\ CountOf("AGENT") = 2
    /\ \E i \in 1..Len(participants) :
           participants[i].actor_type = "AGENT" /\ ~Resolved(participants[i])

\* bot and agent both resolve with two messages each, the agent's first:
\* the agent is the main participant
C32_TieWitness ==
    /\ conv_calls = 1
    /\ main_key = "AGENT|ana@x.com"
    /\ CountOf("BOT") = 2
    /\ CountOf("AGENT") = 2
    /\ normalized[1].actor_type = "AGENT"
    /\ \A i \in 1..Len(participants) : Resolved(participants[i])


\* the conversation-create call succeeded and its response carried an id
ConversationCreated == resp_conv \in OkCodes /\ Truthy(conv_id)

\* C33: the dispatcher only reaches the conversation-create call with a
\* resolved participant, and the batch built from the normalizer's output
\* once the conversation exists then holds at least one message: no result
\* is the NO_VALID_MESSAGES skip with a conversation code, and a created
\* conversation is at once followed by the message-send call with a
\* non-empty batch.
C33_BatchNeverEmpty ==
    /\ conv_calls = 1 => \E i \in 1..Len(participants) : Resolved(participants[i])
    /\ ~(session_result.reason = "NO_VALID_MESSAGES"
            /\ session_result.http_code_conv # 0)
    /\ ConversationCreated =>
           /\ pc = "msgs_call" \/ msgs_calls = 1
           /\ msgs_body # <<>>
           /\ session_result.status # "SKIPPED"

\* four messages, three of a bot that does not resolve: the batch of the
\* created conversation holds the one message of the agent
C33_Witness ==
    /\ ConversationCreated
    /\ msgs_calls = 1
    /\ Len(normalized) = 4
    /\ CountOf("BOT") = 3
    /\ Len(msgs_body) = 1


(***************************************************************************)
(* Properties of the result of process_job (specification Spec)            *)
(***************************************************************************)
\* C34: the result process_job returns has status SENT, FAILED or SKIPPED;
\* it has segments exactly when it is SENT; a SENT result has no reason; its
\* http_code_msgs is other than 0 only when its http_code_conv is 200 or
\* 201; a SKIPPED result has both codes 0.
C34_ResultShape ==
    pc = "done" =>
        /\ job_result.status \in {"SENT", "FAILED", "SKIPPED"}
        /\ job_result.segments # <<>> <=> job_result.status = "SENT"
        /\ job_result.status = "SENT" => job_result.reason = None
        /\ job_result.http_code_msgs # 0 => job_result.http_code_conv \in OkCodes
        /\ job_result.status = "SKIPPED" =>
               /\ job_result.http_code_conv = 0
               /\ job_result.http_code_msgs = 0

\* a FAILED result with both codes: the conversation was created with 201 and
\* the message-send call answered 400
C34_Witness ==
    /\ pc = "done"
    /\ job_result.status = "FAILED"
    /\ job_result.reason = "MESSAGES_FAILED"
    /\ job_result.http_code_conv = 201
    /\ job_result.http_code_msgs = 400
    /\ job_result.segments = <<>>


WrittenBefore == UNION {past[k].written : k \in 1..Len(past)}

\* the sessions some ended run dispatched
DispatchedBefore == UNION {past[k].dispatched : k \in 1..Len(past)}

MarkedReasons ==
    {ExcReason(prefix, text) :
        prefix \in {"EXCEPTION_TIMEOUT_CONV", "EXCEPTION_TIMEOUT_MSGS"},
        text \in {TIMEOUT_TEXT, CONNECTION_TEXT, DB_TEXT}}
    \cup {ExcReason(prefix, text) :
              prefix \in {"EXCEPTION", "EXCEPTION_NO_UPDATE"},
              text \in {TIMEOUT_TEXT, CONNECTION_TEXT}}

\* the results of a chunk that count toward its ratio
Counted(results) ==
    {i \in 1..Len(results) :
        results[i].status = "FAILED" /\ results[i].reason \in MarkedReasons}

\* the results of a chunk that failed after the remote service answered
RemoteFailures(results) ==
    {i \in 1..Len(results) :
        /\ results[i].status = "FAILED"
        /\ results[i].reason \in {"CONV_CREATE_FAILED", "MESSAGES_FAILED"}}

\* C37: the ratio of a chunk counts the FAILED results whose reason contains
\* TIMEOUT or HTTPSConnectionPool and no other result: the cooldown follows
\* a chunk only if the counted results, divided by the chunk's size, reach
\* the threshold, whatever the number of sessions that failed with
\* CONV_CREATE_FAILED or MESSAGES_FAILED; a chunk all of whose sessions
\* failed that way is followed by no cooldown.
C37_OnlyTimeoutsCount ==
    \A k \in 1..Len(pauses) :
        LET results == ResultsOfChunk(k) IN
        /\ \A i \in RemoteFailures(results) : i \notin Counted(results)
        /\ pauses[k] =>
               /\ Counted(results) # {}
               /\ Cardinality(Counted(results)) * cfg_threshold[2]
                      >= cfg_threshold[1] * Len(results)
        /\ Cardinality(RemoteFailures(results)) = Len(results) => ~pauses[k]

\* a chunk of two sessions, one failing with CONV_CREATE_FAILED and one with
\* MESSAGES_FAILED, under the lowest threshold: no cooldown
C37_Witness ==
    /\ cfg_threshold = <<1, 5>>
    /\ Len(pauses) = 1
    /\ ~pauses[1]
    /\ Len(ResultsOfChunk(1)) = 2
    /\ \E i, j \in 1..2 :
           /\ ResultsOfChunk(1)[i].reason = "CONV_CREATE_FAILED"
           /\ ResultsOfChunk(1)[i].http_code_conv = 500
           /\ ResultsOfChunk(1)[j].reason = "MESSAGES_FAILED"
           /\ ResultsOfChunk(1)[j].http_code_msgs = 500


(***************************************************************************)
(* Properties of a session with an encoded column (specification           *)
(* SpecColumn)                                                             *)
(***************************************************************************)
\* process_job has gone past the normalization of the session
PastNormalization ==
    pc \in {"send", "conv_post", "msgs_call", "msgs_post", "write", "done"}
        /\ Truthy(customer_id)

\* C38: a column that holds a text which is neither JSON nor a dump is
\* loaded as one message of origin unknown, which the normalizer drops, so
\* the normalization is empty: the session gets the result
\* SKIPPED/NO_VALID_MESSAGES with both codes 0 as soon as it is normalized,
\* no other result of the try block, and no remote call is made for it.
C38_TextBlobSkipped ==
    job.mensajes = TextBlob =>
        /\ load_raw_messages(job.mensajes) = <<WrappedText>>
        /\ normalized = <<>>
        /\ conv_calls = 0 /\ msgs_calls = 0 /\ posts = 0
        /\ PastNormalization =>
               /\ pc \in {"write", "done"}
               /\ session_result =
                      SessionResult(job, "SKIPPED", "NO_VALID_MESSAGES", 0, 0, <<>>)
        /\ (pc = "done" /\ exc = None /\ Truthy(customer_id)) =>
               /\ job_result.status = "SKIPPED"
               /\ job_result.reason = "NO_VALID_MESSAGES"
               /\ envio_row.estado = "SKIPPED"

C38_Witness ==
    /\ job.mensajes = TextBlob
    /\ pc = "done"
    /\ job_result.status = "SKIPPED"
    /\ job_result.reason = "NO_VALID_MESSAGES"
    /\ envio_row.error_message = "NO_VALID_MESSAGES"
    /\ status_writes = 1
    /\ posts = 0


(***************************************************************************)
(* Properties of the customer resolution (specification Spec)              *)
(***************************************************************************)
CustomerFailed == session_result.reason = "CUSTOMER_RESOLUTION_FAILED"

NothingDone ==
    /\ normalized = <<>>
    /\ participants = <<>>
    /\ conv_calls = 0 /\ msgs_calls = 0 /\ posts = 0

\* C40 as stated: a session without customer id ends FAILED with reason
\* CUSTOMER_RESOLUTION_FAILED and its status is written once.
C40_AsStated ==
    (pc = "done" /\ CustomerFailed) =>
        /\ job_result.reason = "CUSTOMER_RESOLUTION_FAILED"
        /\ status_writes = 1

\* C40: the customer is resolved before anything else is done for the
\* session, and the normalization only follows with a customer id. Without
\* one the try block gives the result FAILED/CUSTOMER_RESOLUTION_FAILED with
\* both codes 0 and no segments, no normalization and no remote call takes
\* place, and the status is written at most once: once, with that result,
\* which process_job returns, when the write succeeds; when it raises,
\* process_job returns a FAILED result of its exception handler with both
\* codes 0, written once or not at all.
C40_CustomerResolutionFailed ==
    /\ pc \in {"start", "customer"} =>
           NothingDone /\ session_result = NoResult /\ status_writes = 0
    /\ pc \in {"normalize", "send", "conv_post", "msgs_call", "msgs_post"} =>
           Truthy(customer_id)
    /\ CustomerFailed =>
           /\ ~Truthy(customer_id)
           /\ session_result =
                  SessionResult(job, "FAILED", "CUSTOMER_RESOLUTION_FAILED",
                                0, 0, <<>>)
           /\ NothingDone
           /\ pc \in {"write", "except", "done"}
           /\ status_writes <= 1
           /\ pc = "done" =>
                  /\ job_result.status = "FAILED"
                  /\ job_result.http_code_conv = 0
                  /\ job_result.http_code_msgs = 0
                  /\ exc = None <=> job_result = session_result
                  /\ exc = None => status_writes = 1
                  /\ status_writes = 1 => envio_row = RowOf(job_result)
                  /\ status_writes = 0 =>
                         job_result.reason = ExcReason("EXCEPTION_NO_UPDATE", exc)

\* a session of four messages without customer id: FAILED is written once
\* and nothing is normalized
C40_Witness ==
    /\ pc = "done"
    /\ CustomerFailed
    /\ job_result = session_result
    /\ Len(job.mensajes) = 4
    /\ NothingDone
    /\ status_writes = 1
    /\ envio_row.estado = "FAILED"
    /\ envio_row.error_message = "CUSTOMER_RESOLUTION_FAILED"


(***************************************************************************)
(* Properties of a session with a fallback agent (specification Spec)      *)
(***************************************************************************)
\* C39: when the job carries agent_drellia_id, every participant has an
\* employee id, no result is SKIPPED/NO_RESOLVED_EMPLOYEE_IDS, and the batch
\* of the message-send call holds every normalized message, in order.
C39_FallbackResolvesAll ==
    Truthy(job.agent_drellia_id) =>
        /\ \A i \in 1..Len(participants) : Resolved(participants[i])
        /\ session_result.reason # "NO_RESOLVED_EMPLOYEE_IDS"
        /\ job_result.reason # "NO_RESOLVED_EMPLOYEE_IDS"
        /\ msgs_calls > 0 =>
               /\ Len(msgs_body) = Len(normalized)
               /\ \A k \in 1..Len(normalized) :
                      /\ msgs_body[k].content = normalized[k].content
                      /\ Truthy(msgs_body[k].senderId)

\* no bot id configured and an agent unknown to table agentes: both stand
\* for the fallback, and the four messages of the session are sent
C39_Witness ==
    /\ job.agent_drellia_id = "emp-fallback"
    /\ ~Truthy(bot_employee_id)
    /\ agentes = EmptyTable
    /\ CountOf("BOT") >= 1 /\ CountOf("AGENT") >= 1
    /\ Len(participants) = 2
    /\ \A i \in 1..2 : participants[i].employee_id = "emp-fallback"
    /\ msgs_calls = 1
    /\ Len(msgs_body) = 4
    /\ pc = "done" /\ job_result.status = "SENT"

====
